---------------------------- MODULE Spec2Model ----------------------------
(***************************************************************************)
(* Model of the repository classification engine of                        *)
(* src/src/lib/aztec-classifier.ts: findAllNargoTomlFiles (the Locator),   *)
(* fetchNargoTomlFromPath (the Fetcher), analyzeNargoConfig (the Analyzer),*)
(* COMMON_NARGO_PATHS (the fallback catalog) and classifyRepository (the   *)
(* engine).  One classifyRepository call is one behaviour: the search, one *)
(* step per loop iteration, one step per pacing delay.                     *)
(*                                                                         *)
(* Conventions.  An optional value (undefined / null in the source) is a   *)
(* sequence of length at most one: << >> is undefined, << v >> is v.  An   *)
(* object key that the source leaves out is left out of the record's       *)
(* DOMAIN.  Paths, package types and log texts are strings; dependency     *)
(* names are sequences of characters, because the Analyzer lower-cases and *)
(* searches them character by character.                                   *)
(***************************************************************************)
EXTENDS Integers, Sequences, FiniteSets, TLC

VARIABLES
    pc,                \* position of the call: start, fetch, delay, done, thrown
    searchResult,      \* optional: what findAllNargoTomlFiles returned
    nargoPaths,        \* the list of paths the loop walks
    usingFallbackPaths,
    i,                 \* loop index, 0-based as in the source
    acc,               \* the accumulators the loop updates (locals of the call)
    apiFailure,        \* optional: the apiFailure local
    result,            \* optional: the returned ClassificationResult
    thrown,            \* optional: the exception that left the call
    fetchLog,          \* the fetch calls made so far: path and returned config
    lastResponse,      \* kind of the transport response of the latest fetch
    searchResponse,    \* optional: the transport response of the search
    currentIndex,      \* TokenRotator.currentIndex of the module's rotator
    run,               \* which call of classifyRepository this is: 1 or 2
    world,             \* what the repository answered in the first call
    firstResult,       \* optional: what the first call returned
    rotator,           \* a TokenRotator object: tokens, currentIndex, tokenUsage
    clock,             \* Date.now(), in half hours
    opLog,             \* the calls made on the rotator: op, token, time
    retry,             \* a searchWithRetry call: position, counters, errors caught
    driver,            \* the discovery driver: position, query index, attempts, repos
    peer,              \* the locals of a second classifyRepository call, suspended
    anInput,           \* optional: the manifest and path given to the Analyzer alone
    anOutput           \* optional: what analyzeNargoConfig returned for anInput

\* the state of one classifyRepository call
classifyVars == << pc, searchResult, nargoPaths, usingFallbackPaths, i, acc,
                   apiFailure, result, thrown, fetchLog, lastResponse,
                   searchResponse, currentIndex >>

\* the state kept across two calls on the same repository
rerunVars == << run, world, firstResult >>

\* the state of a call of analyzeNargoConfig on its own
analyzerVars == << anInput, anOutput >>

\* a TokenRotator on its own
rotatorVars == << rotator, clock, opLog >>

vars == << classifyVars, analyzerVars, rerunVars, rotatorVars, retry, driver, peer >>

(***************************************************************************)
(* Bounds of the model.                                                    *)
(***************************************************************************)
\* longest list of paths a successful search returns
MaxSearchPaths == 3

\* most keys in the dependencies table of a manifest given to the Analyzer alone
MaxDeps == 2

\* number of tokens the rotator holds
NumTokens == 2

\* most tokens of a TokenRotator examined on its own
MaxTokens == 2

\* most calls made on that TokenRotator
MaxCalls == 4

\* latest reading of the clock
MaxClock == 3

\* largest maxRetries given to searchWithRetry
MaxMaxRetries == 2

\* number of search queries the discovery driver runs
NumQueries == 3

(***************************************************************************)
(* Strings as character sequences.                                         *)
(***************************************************************************)
UpperChars == << "A", "B", "C", "D", "E", "F", "G", "H", "I", "J", "K", "L", "M",
                 "N", "O", "P", "Q", "R", "S", "T", "U", "V", "W", "X", "Y", "Z" >>

LowerChars == << "a", "b", "c", "d", "e", "f", "g", "h", "i", "j", "k", "l", "m",
                 "n", "o", "p", "q", "r", "s", "t", "u", "v", "w", "x", "y", "z" >>

\* String.prototype.toLowerCase, one character
ToLowerChar(c) ==
    IF \E k \in DOMAIN UpperChars : UpperChars[k] = c
    THEN LowerChars[CHOOSE k \in DOMAIN UpperChars : UpperChars[k] = c]
    ELSE c

\* String.prototype.toLowerCase
ToLowerCase(s) == [k \in DOMAIN s |-> ToLowerChar(s[k])]

\* String.prototype.includes
Includes(s, sub) ==
    \E k \in 0..(Len(s) - Len(sub)) : SubSeq(s, k + 1, k + Len(sub)) = sub

\* String.prototype.startsWith
StartsWith(s, sub) ==
    /\ Len(s) >= Len(sub)
    /\ SubSeq(s, 1, Len(sub)) = sub

\* the text of a character sequence, as a template literal interpolates it
RECURSIVE Str(_)
Str(s) == IF s = << >> THEN "" ELSE Head(s) \o Str(Tail(s))

\* Array.prototype.join
RECURSIVE Join(_, _)
Join(parts, sep) ==
    IF parts = << >> THEN ""
    ELSE IF Len(parts) = 1 THEN parts[1]
    ELSE parts[1] \o sep \o Join(Tail(parts), sep)

(***************************************************************************)
(* NargoConfig: the parsed manifest.  package is optional, its type is     *)
(* optional, dependencies is optional; the keys of dependencies are kept   *)
(* in the order Object.entries walks them.                                 *)
(***************************************************************************)
NoPackage == << >>

Package(type) == << [type |-> type] >>

NoDependencies == << >>

Dependencies(keys) == << keys >>

Chars_aztec == << "a", "z", "t", "e", "c" >>

Chars_aztec_nr == << "a", "z", "t", "e", "c", ".", "n", "r" >>

Chars_aztec_us == << "a", "z", "t", "e", "c", "_" >>

Chars_aztec_dash == << "a", "z", "t", "e", "c", "-" >>

\* dependency names of the modelled manifests
Dep_aztec == << "a", "z", "t", "e", "c" >>

Dep_Aztec_std == << "A", "z", "t", "e", "c", "_", "s", "t", "d" >>

Dep_std == << "s", "t", "d" >>

\* the manifests a modelled repository may hold
Manifest_contract == [package |-> Package(<< "contract" >>), dependencies |-> NoDependencies]

Manifest_libAztec ==
    [package |-> Package(<< "lib" >>),
     dependencies |-> Dependencies(<< Dep_aztec, Dep_std, Dep_Aztec_std >>)]

Manifest_bin == [package |-> Package(<< "bin" >>), dependencies |-> Dependencies(<< Dep_std >>)]

Manifest_lib == [package |-> Package(<< "lib" >>), dependencies |-> NoDependencies]

Manifest_empty == [package |-> NoPackage, dependencies |-> NoDependencies]

Manifest_binAztec ==
    [package |-> Package(<< "bin" >>), dependencies |-> Dependencies(<< Dep_aztec >>)]

ManifestPool ==
    { Manifest_contract, Manifest_libAztec, Manifest_bin, Manifest_lib, Manifest_empty,
      Manifest_binAztec }

(***************************************************************************)
(* analyzeNargoConfig                                                      *)
(***************************************************************************)
\* a bug: a missing type is reported as 'unknown' instead of 'bin'
PackageTypeOf_Unknown(config) ==
    IF config.package = NoPackage THEN "unknown"
    ELSE IF config.package[1].type = << >> THEN "unknown"
    ELSE IF config.package[1].type[1] = "" THEN "unknown"
    ELSE config.package[1].type[1]

\* config.package?.type || 'bin'
PackageTypeOf(config) ==
    IF config.package = NoPackage THEN "bin"
    ELSE IF config.package[1].type = << >> THEN "bin"
    ELSE IF config.package[1].type[1] = "" THEN "bin"
    ELSE config.package[1].type[1]

\* a bug: the key is compared without lower-casing it
IsAztecDependency_CaseSensitive(dep) ==
    \/ Includes(dep, Chars_aztec)
    \/ dep = Chars_aztec_nr
    \/ dep = Chars_aztec
    \/ Includes(dep, Chars_aztec_us)
    \/ StartsWith(dep, Chars_aztec_dash)

\* the condition under which a dependency key counts as Aztec-related
IsAztecDependency(dep) ==
    LET depLower == ToLowerCase(dep)
    IN  \/ Includes(depLower, Chars_aztec)
        \/ depLower = Chars_aztec_nr
        \/ depLower = Chars_aztec
        \/ Includes(depLower, Chars_aztec_us)
        \/ StartsWith(depLower, Chars_aztec_dash)

\* the indicators pushed by the loop over Object.entries(config.dependencies)
RECURSIVE DependencyIndicators(_)
DependencyIndicators(keys) ==
    IF keys = << >> THEN << >>
    ELSE IF IsAztecDependency(Head(keys))
         THEN << "dependency:" \o Str(Head(keys)) >> \o DependencyIndicators(Tail(keys))
         ELSE DependencyIndicators(Tail(keys))

\* a variant: dependencies are scanned only when the type is not 'contract'
analyzeNargoConfig_ElseScan(config) ==
    LET packageType == PackageTypeOf(config)
        depIndicators ==
            IF config.dependencies = NoDependencies THEN << >>
            ELSE DependencyIndicators(config.dependencies[1])
    IN  IF packageType = "contract"
        THEN [isAztec |-> TRUE, type |-> packageType, indicators |-> << "type=contract" >>]
        ELSE [isAztec    |-> depIndicators # << >>,
              type       |-> packageType,
              indicators |-> depIndicators]

analyzeNargoConfig(config) ==
    LET packageType == PackageTypeOf(config)
        typeIndicators ==
            IF packageType = "contract" THEN << "type=contract" >> ELSE << >>
        depIndicators ==
            IF config.dependencies = NoDependencies THEN << >>
            ELSE DependencyIndicators(config.dependencies[1])
    IN  [isAztec    |-> (packageType = "contract") \/ (depIndicators # << >>),
         type       |-> packageType,
         indicators |-> typeIndicators \o depIndicators]

\* analyzeNargoConfig is pure: its value on each manifest of the model,
\* computed once
AnalysisTable == [config \in ManifestPool |-> analyzeNargoConfig(config)]

\* const analysis = analyzeNargoConfig(config), for a manifest of the model
Analysis(config) == AnalysisTable[config]

(***************************************************************************)
(* COMMON_NARGO_PATHS, the fallback catalog, and the paths of the modelled *)
(* repositories.                                                           *)
(***************************************************************************)
COMMON_NARGO_PATHS ==
    << "Nargo.toml",
       "contracts/Nargo.toml",
       "src/Nargo.toml",
       "packages/contracts/Nargo.toml",
       "circuits/Nargo.toml",
       "app/Nargo.toml",
       "examples/Nargo.toml",
       "packages/aztec-contracts/Nargo.toml",
       "packages/noir-contracts/Nargo.toml",
       "contracts/src/Nargo.toml",
       "packages/aztec-contracts/emitter/Nargo.toml",
       "packages/aztec-contracts/*/Nargo.toml",
       "packages/*/contracts/Nargo.toml",
       "packages/*/Nargo.toml",
       "contracts/*/Nargo.toml",
       "src/contracts/Nargo.toml",
       "src/*/Nargo.toml",
       "examples/*/Nargo.toml",
       "tests/Nargo.toml",
       "test/Nargo.toml",
       "aztec/Nargo.toml",
       "aztec-contracts/Nargo.toml",
       "noir-contracts/Nargo.toml",
       "packages/aztec/Nargo.toml",
       "packages/noir/Nargo.toml" >>

Range(seq) == { seq[k] : k \in DOMAIN seq }

\* the paths at which a modelled repository may hold a manifest: the first
\* and the last entry of the catalog, and two paths outside the catalog
RepoPaths ==
    { "Nargo.toml", "packages/noir/Nargo.toml",
      "packages/a/Nargo.toml", "contracts/counter/Nargo.toml" }

\* the paths of a modelled repository in the order of the search index
RepoPathOrder ==
    << "contracts/counter/Nargo.toml", "Nargo.toml",
       "packages/a/Nargo.toml", "packages/noir/Nargo.toml" >>

\* the lists a successful code search may return: no path twice, in the order
\* of the search index or in the reverse order
SearchPathLists ==
    { [k \in 1..n |-> RepoPathOrder[pos[k]]] :
        << n, pos >> \in
            { np \in UNION { {n} \X [1..n -> DOMAIN RepoPathOrder] :
                                n \in 0..MaxSearchPaths } :
                \/ \A a, b \in 1..np[1] : a < b => np[2][a] < np[2][b]
                \/ \A a, b \in 1..np[1] : a < b => np[2][a] > np[2][b] } }

(***************************************************************************)
(* Transport responses (axios).  A response is either                      *)
(*   [kind |-> "ok", data |-> ...]  or                                     *)
(*   [kind |-> "error", status |-> optional, code |-> optional,            *)
(*    message |-> text], the error axios.get rejects with.                 *)
(***************************************************************************)
HttpError(status, message) ==
    [kind |-> "error", status |-> << status >>, code |-> << >>, message |-> message]

Err401 == HttpError(401, "Request failed with status code 401")

Err403 == HttpError(403, "Request failed with status code 403")

Err404 == HttpError(404, "Request failed with status code 404")

Err429 == HttpError(429, "Request failed with status code 429")

Err500 == HttpError(500, "Request failed with status code 500")

ErrTimeout ==
    [kind |-> "error", status |-> << >>, code |-> << "ECONNABORTED" >>,
     message |-> "timeout of 30000ms exceeded"]

\* an error without response, code or message
ErrBare == [kind |-> "error", status |-> << >>, code |-> << >>, message |-> ""]

\* responses of GET /search/code: items is optional
SearchResponses ==
    { [kind |-> "ok", data |-> [items |-> << l >>]] : l \in SearchPathLists }
        \cup { [kind |-> "ok", data |-> [items |-> << >>]] }
        \cup { Err401, Err403, Err429, Err500, ErrTimeout, ErrBare }

\* content that toml.parse rejects
MalformedToml == [syntaxError |-> TRUE]

FileData(content) == [type |-> << "file" >>, content |-> << content >>]

\* an object of type 'dir'
DirData == [type |-> << "dir" >>, content |-> << >>]

\* a directory listing: an array, with neither type nor content
ListingData == [type |-> << >>, content |-> << >>]

\* responses of GET /repos/:owner/:repo/contents/:path
FetchResponses(path) ==
    { [kind |-> "ok", data |-> DirData], [kind |-> "ok", data |-> ListingData],
      Err401, Err403, Err404, Err429, Err500, ErrTimeout }
        \cup (IF path \in RepoPaths
              THEN { [kind |-> "ok", data |-> FileData(c)] :
                        c \in ManifestPool \cup { MalformedToml } }
              ELSE { })

HasStatus(error, status) == error.status = << status >>

HasCode(error, code) == error.code = << code >>

(***************************************************************************)
(* findAllNargoTomlFiles: a function outcome is                            *)
(*   [kind |-> "return", value |-> v]  or  [kind |-> "throw", error |-> e] *)
(***************************************************************************)
Return(v) == [kind |-> "return", value |-> v]

Throw(e) == [kind |-> "throw", error |-> e]

\* the try block
FindAllTry(resp) ==
    IF resp.kind = "error" THEN Throw(resp)
    ELSE Return([paths |-> IF resp.data.items = << >> THEN << >>
                           ELSE resp.data.items[1],
                 searchFailed |-> FALSE])

\* a bug: HTTP 429 is not recognised as a rate limit
FailureReasonOf_No429(error) ==
    IF HasStatus(error, 403) THEN "Rate limit exceeded"
    ELSE IF HasCode(error, "ECONNABORTED") THEN "Request timeout"
    ELSE IF HasStatus(error, 401) THEN "Authentication failed"
    ELSE IF error.message # "" THEN error.message
    ELSE "Search API error"

\* the failureReason the catch block computes
FailureReasonOf(error) ==
    IF HasStatus(error, 403) \/ HasStatus(error, 429) THEN "Rate limit exceeded"
    ELSE IF HasCode(error, "ECONNABORTED") THEN "Request timeout"
    ELSE IF HasStatus(error, 401) THEN "Authentication failed"
    ELSE IF error.message # "" THEN error.message
    ELSE "Search API error"

\* a bug: an authentication failure is rethrown
FindAllCatch_Rethrow(error) ==
    IF HasStatus(error, 401) THEN Throw(error)
    ELSE Return([paths |-> << >>, searchFailed |-> TRUE,
                 failureReason |-> FailureReasonOf(error)])

\* the catch block
FindAllCatch(error) ==
    Return([paths |-> << >>, searchFailed |-> TRUE,
            failureReason |-> FailureReasonOf(error)])

findAllNargoTomlFiles(resp) ==
    LET t == FindAllTry(resp)
    IN  IF t.kind = "throw" THEN FindAllCatch(t.error) ELSE t

(***************************************************************************)
(* fetchNargoTomlFromPath: returns a config or null                        *)
(***************************************************************************)
\* a bug: content that does not parse is read as a manifest without sections
TomlParse_Lenient(content) ==
    IF content = MalformedToml THEN Return(Manifest_empty) ELSE Return(content)

\* toml.parse
TomlParse(content) ==
    IF content = MalformedToml THEN Throw(ErrBare) ELSE Return(content)

\* the try block
FetchTry(resp) ==
    IF resp.kind = "error" THEN Throw(resp)
    ELSE IF resp.data.type = << "dir" >> THEN Return(<< >>)
    ELSE IF resp.data.content = << >> THEN Throw(ErrBare)
    ELSE LET parsed == TomlParse(resp.data.content[1])
         IN  IF parsed.kind = "throw" THEN parsed
             ELSE Return(<< parsed.value >>)

\* a bug: the rate-limit branch rethrows instead of falling through to return null
FetchCatch_Rethrow(error) ==
    IF HasStatus(error, 403) \/ HasStatus(error, 429) THEN Throw(error)
    ELSE Return(<< >>)

\* a variant: authentication, rate-limit and timeout failures are thrown to the
\* caller with their category
FetchCatch_Transient(error) ==
    IF HasStatus(error, 403) \/ HasStatus(error, 429)
    THEN Throw([name |-> "TransientFetchError", category |-> "rate-limited"])
    ELSE IF HasCode(error, "ECONNABORTED")
    THEN Throw([name |-> "TransientFetchError", category |-> "timeout"])
    ELSE IF HasStatus(error, 401)
    THEN Throw([name |-> "TransientFetchError", category |-> "unauthenticated"])
    ELSE Return(<< >>)

\* the catch block: every branch logs, then null is returned
FetchCatch(error) == Return(<< >>)

fetchNargoTomlFromPath(resp) ==
    LET t == FetchTry(resp)
    IN  IF t.kind = "throw" THEN FetchCatch(t.error) ELSE t

(***************************************************************************)
(* classifyRepository: the pieces of the call                              *)
(***************************************************************************)
\* the locals before the search
InitialAcc ==
    [aztecIndicators       |-> << >>,
     isAztecRepo           |-> FALSE,
     primaryType           |-> "unknown",
     filesChecked          |-> 0,
     nargoFilesFound       |-> << >>,
     fallbackFetchAttempts |-> 0,
     fallbackFetchFailures |-> 0]

\* a bug: an empty search is flagged like a failed one
InitialApiFailure_EmptyToo(sr) ==
    IF sr.searchFailed \/ Len(sr.paths) = 0
    THEN << [searchFailed     |-> TRUE,
             allFetchesFailed |-> FALSE,
             reason           |-> IF "failureReason" \in DOMAIN sr /\ sr.failureReason # ""
                                  THEN sr.failureReason
                                  ELSE "Search failed"] >>
    ELSE << >>

\* if (searchResult.searchFailed) apiFailure = {...}
InitialApiFailure(sr) ==
    IF sr.searchFailed
    THEN << [searchFailed     |-> TRUE,
             allFetchesFailed |-> FALSE,
             reason           |-> IF "failureReason" \in DOMAIN sr /\ sr.failureReason # ""
                                  THEN sr.failureReason
                                  ELSE "Search failed"] >>
    ELSE << >>

\* a bug: the catalog is used only when the search failed, not when it found nothing
SelectPaths_FailedOnly(sr) ==
    IF sr.searchFailed THEN COMMON_NARGO_PATHS ELSE sr.paths

\* if (nargoPaths.length === 0) nargoPaths = COMMON_NARGO_PATHS
SelectPaths(sr) ==
    IF Len(sr.paths) = 0 THEN COMMON_NARGO_PATHS ELSE sr.paths

\* const usingFallbackPaths = searchResult.searchFailed || (searchResult.paths.length === 0)
UsingFallback(sr) == sr.searchFailed \/ (Len(sr.paths) = 0)

\* aztecIndicators.push(`${path}: ${analysis.indicators.join(', ')}`)
IndicatorEntry(path, analysis) == path \o ": " \o Join(analysis.indicators, ", ")

\* a bug: the flag is assigned from the latest manifest instead of or-ed
UpdateIsAztec_LastWins(isAztecRepo, analysis) == analysis.isAztec

\* isAztecRepo after a manifest with this analysis
UpdateIsAztec(isAztecRepo, analysis) ==
    IF analysis.isAztec THEN TRUE ELSE isAztecRepo

\* a bug: an Aztec manifest of another type overwrites 'contract'
UpdatePrimaryType_Overwrite(primaryType, isAztecRepo, analysis) ==
    IF analysis.isAztec THEN analysis.type
    ELSE IF ~isAztecRepo
         THEN IF primaryType = "unknown" THEN analysis.type ELSE primaryType
         ELSE primaryType

\* a variant: a type that is not 'contract' is assigned only while primaryType
\* is 'unknown' and no manifest has indicated Aztec
UpdatePrimaryType_KeepFirst(primaryType, isAztecRepo, analysis) ==
    IF analysis.type = "contract" /\ analysis.isAztec THEN "contract"
    ELSE IF primaryType = "unknown" /\ ~isAztecRepo THEN analysis.type
    ELSE primaryType

\* a bug: a manifest that does not indicate Aztec overwrites the type of an
\* earlier one
UpdatePrimaryType_LastWins(primaryType, isAztecRepo, analysis) ==
    IF analysis.isAztec
    THEN IF analysis.type = "contract" THEN "contract"
         ELSE IF primaryType = "unknown" \/ primaryType # "contract" THEN analysis.type
         ELSE primaryType
    ELSE IF ~isAztecRepo THEN analysis.type ELSE primaryType

\* primaryType after a manifest with this analysis; isAztecRepo is the flag
\* as it was before the manifest
UpdatePrimaryType(primaryType, isAztecRepo, analysis) ==
    IF analysis.isAztec
    THEN IF analysis.type = "contract" THEN "contract"
         ELSE IF primaryType = "unknown" \/ primaryType # "contract" THEN analysis.type
         ELSE primaryType
    ELSE IF ~isAztecRepo
         THEN IF primaryType = "unknown" THEN analysis.type ELSE primaryType
         ELSE primaryType

\* a bug: an entry is pushed for every manifest, indicating or not
ExamineManifest_AlwaysPush(a, path, config) ==
    LET analysis == Analysis(config)
    IN  [a EXCEPT
            !.filesChecked    = @ + 1,
            !.nargoFilesFound = Append(@, path),
            !.isAztecRepo     = UpdateIsAztec(@, analysis),
            !.aztecIndicators = Append(@, IndicatorEntry(path, analysis)),
            !.primaryType     = UpdatePrimaryType(@, a.isAztecRepo, analysis)]

\* a bug: filesChecked++ sits inside if (analysis.isAztec)
ExamineManifest_CountAztecOnly(a, path, config) ==
    LET analysis == Analysis(config)
    IN  [a EXCEPT
            !.filesChecked    = IF analysis.isAztec THEN @ + 1 ELSE @,
            !.nargoFilesFound = Append(@, path),
            !.isAztecRepo     = UpdateIsAztec(@, analysis),
            !.aztecIndicators = IF analysis.isAztec
                                THEN Append(@, IndicatorEntry(path, analysis))
                                ELSE @,
            !.primaryType     = UpdatePrimaryType(@, a.isAztecRepo, analysis)]

\* a bug: unshift instead of push
ExamineManifest_Unshift(a, path, config) ==
    LET analysis == Analysis(config)
    IN  [a EXCEPT
            !.filesChecked    = @ + 1,
            !.nargoFilesFound = << path >> \o @,
            !.isAztecRepo     = UpdateIsAztec(@, analysis),
            !.aztecIndicators = IF analysis.isAztec
                                THEN << IndicatorEntry(path, analysis) >> \o @
                                ELSE @,
            !.primaryType     = UpdatePrimaryType(@, a.isAztecRepo, analysis)]

\* the if (config) branch of the loop body
ExamineManifest(a, path, config) ==
    LET analysis == Analysis(config)
    IN  [a EXCEPT
            !.filesChecked    = @ + 1,
            !.nargoFilesFound = Append(@, path),
            !.isAztecRepo     = UpdateIsAztec(@, analysis),
            !.aztecIndicators = IF analysis.isAztec
                                THEN Append(@, IndicatorEntry(path, analysis))
                                ELSE @,
            !.primaryType     = UpdatePrimaryType(@, a.isAztecRepo, analysis)]

\* a bug: if (isAztecRepo) continue; at the top of the body
LoopBody_SkipOnceAztec(a, path, config, usingFallback) ==
    IF a.isAztecRepo THEN a
    ELSE LET counted == IF usingFallback
                        THEN [a EXCEPT !.fallbackFetchAttempts = @ + 1]
                        ELSE a
         IN  IF config # << >> THEN ExamineManifest(counted, path, config[1])
             ELSE IF usingFallback
                  THEN [counted EXCEPT !.fallbackFetchFailures = @ + 1]
                  ELSE counted

\* one iteration of the loop, given what the fetch returned
LoopBody(a, path, config, usingFallback) ==
    LET counted == IF usingFallback
                   THEN [a EXCEPT !.fallbackFetchAttempts = @ + 1]
                   ELSE a
    IN  IF config # << >> THEN ExamineManifest(counted, path, config[1])
        ELSE IF usingFallback
             THEN [counted EXCEPT !.fallbackFetchFailures = @ + 1]
             ELSE counted

\* a bug: one failed fetch is enough
FinalApiFailure_AnyFailed(apiF, usingFallback, a) ==
    IF apiF # << >> /\ usingFallback /\ a.fallbackFetchAttempts > 0
    THEN << [apiF[1] EXCEPT !.allFetchesFailed = (a.fallbackFetchFailures > 0)] >>
    ELSE apiF

\* if (apiFailure && usingFallbackPaths && fallbackFetchAttempts > 0) ...
FinalApiFailure(apiF, usingFallback, a) ==
    IF apiF # << >> /\ usingFallback /\ a.fallbackFetchAttempts > 0
    THEN << [apiF[1] EXCEPT
                !.allFetchesFailed =
                    (a.fallbackFetchFailures = a.fallbackFetchAttempts)] >>
    ELSE apiF

\* a bug: 'bin' is guessed also when no manifest was examined
FinalPrimaryType_Guess(a) ==
    IF ~a.isAztecRepo /\ a.primaryType = "unknown" THEN "bin" ELSE a.primaryType

\* if (!isAztecRepo && filesChecked > 0 && primaryType === 'unknown') primaryType = 'bin'
FinalPrimaryType(a) ==
    IF ~a.isAztecRepo /\ a.filesChecked > 0 /\ a.primaryType = "unknown"
    THEN "bin"
    ELSE a.primaryType

\* the result object: the apiFailure key is present only when apiFailure is set
BuildResult(a, primaryType, apiF) ==
    LET base == [isAztec         |-> a.isAztecRepo,
                 nargoType       |-> primaryType,
                 filesChecked    |-> a.filesChecked,
                 aztecIndicators |-> a.aztecIndicators,
                 nargoFiles      |-> a.nargoFilesFound]
    IN  IF apiF = << >> THEN base
        ELSE [isAztec         |-> base.isAztec,
              nargoType       |-> base.nargoType,
              filesChecked    |-> base.filesChecked,
              aztecIndicators |-> base.aztecIndicators,
              nargoFiles      |-> base.nargoFiles,
              apiFailure      |-> apiF[1]]

\* the code after the loop
Finish(a, apiF, usingFallback) ==
    BuildResult(a, FinalPrimaryType(a), FinalApiFailure(apiF, usingFallback, a))

(***************************************************************************)
(* The call as a state machine                                             *)
(***************************************************************************)
\* no searchWithRetry call, no driver run, no second call under examination
NoRetry == [pc |-> "none"]

NoDriver == [pc |-> "none"]

NoPeer == [pc |-> "none"]

\* no TokenRotator object under examination
NoRotator == [tokens |-> << >>, currentIndex |-> 0, tokenUsage |-> << >>]

\* TokenRotator.getNextToken: currentIndex after the call
NextIndex(idx) == IF NumTokens = 1 THEN idx ELSE (idx + 1) % NumTokens

\* nothing recorded about the repository's answers
NoWorld == [start |-> << >>, search |-> << >>, fetch |-> { }]

Init ==
    /\ pc = "start"
    /\ searchResult = << >>
    /\ nargoPaths = << >>
    /\ usingFallbackPaths = FALSE
    /\ i = 0
    /\ acc = InitialAcc
    /\ apiFailure = << >>
    /\ result = << >>
    /\ thrown = << >>
    /\ fetchLog = << >>
    /\ lastResponse = << >>
    /\ searchResponse = << >>
    /\ currentIndex = 0
    /\ anInput = << >>
    /\ anOutput = << >>
    /\ run = 1
    /\ world = NoWorld
    /\ firstResult = << >>
    /\ rotator = NoRotator
    /\ clock = 0
    /\ opLog = << >>
    /\ retry = NoRetry
    /\ driver = NoDriver
    /\ peer = NoPeer

\* a bug: break once the repository is known to be Aztec
LoopCondition_BreakOnAztec(idx, paths, a) == idx < Len(paths) /\ ~a.isAztecRepo

\* for (let i = 0; i < nargoPaths.length; i++): the loop goes on to index idx;
\* the body holds no break and no return, so the locals a play no part
LoopCondition(idx, paths, a) == idx < Len(paths)

\* if (i < nargoPaths.length - 1) await the pacing delay
NeedsDelay(idx, paths) == idx < Len(paths) - 1

\* const searchResult = await findAllNargoTomlFiles(...), up to the loop head,
\* when the search API answers resp
SearchWith(resp) ==
    /\ pc = "start"
    /\ searchResponse' = << resp >>
    /\ currentIndex' = NextIndex(currentIndex)
    /\ LET f == findAllNargoTomlFiles(resp)
       IN  IF f.kind = "throw"
           THEN /\ pc' = "thrown"
                /\ thrown' = << f.error >>
                /\ UNCHANGED << searchResult, nargoPaths, usingFallbackPaths,
                                apiFailure, result >>
           ELSE /\ searchResult' = << f.value >>
                /\ nargoPaths' = SelectPaths(f.value)
                /\ usingFallbackPaths' = UsingFallback(f.value)
                /\ thrown' = << >>
                /\ IF LoopCondition(0, SelectPaths(f.value), acc)
                   THEN /\ pc' = "fetch"
                        /\ apiFailure' = InitialApiFailure(f.value)
                        /\ result' = << >>
                   ELSE /\ pc' = "done"
                        /\ apiFailure' = FinalApiFailure(InitialApiFailure(f.value),
                                                         UsingFallback(f.value), acc)
                        /\ result' = << Finish(acc, InitialApiFailure(f.value),
                                               UsingFallback(f.value)) >>
    /\ UNCHANGED << i, acc, fetchLog, lastResponse >>

\* one loop iteration: fetch nargoPaths[i], examine what came back; after the
\* last iteration the call runs on to its return without another await; the
\* contents API answers resp
FetchWith(resp) ==
    /\ pc = "fetch"
    /\ lastResponse' = << resp >>
    /\ currentIndex' = NextIndex(currentIndex)
    /\ LET path == nargoPaths[i + 1]
           f    == fetchNargoTomlFromPath(resp)
       IN  IF f.kind = "throw"
           THEN /\ pc' = "thrown"
                /\ thrown' = << f.error >>
                /\ fetchLog' = Append(fetchLog, [path |-> path, config |-> << >>])
                /\ UNCHANGED << acc, i, result, apiFailure >>
           ELSE LET a == LoopBody(acc, path, f.value, usingFallbackPaths)
                IN  /\ acc' = a
                    /\ fetchLog' = Append(fetchLog,
                                          [path |-> path, config |-> f.value])
                    /\ thrown' = << >>
                    /\ IF NeedsDelay(i, nargoPaths)
                       THEN /\ pc' = "delay"
                            /\ UNCHANGED << i, result, apiFailure >>
                       ELSE /\ i' = i + 1
                            /\ IF LoopCondition(i + 1, nargoPaths, a)
                               THEN /\ pc' = "fetch"
                                    /\ UNCHANGED << result, apiFailure >>
                               ELSE /\ pc' = "done"
                                    /\ apiFailure' =
                                         FinalApiFailure(apiFailure,
                                                         usingFallbackPaths, a)
                                    /\ result' =
                                         << Finish(a, apiFailure,
                                                   usingFallbackPaths) >>
    /\ UNCHANGED << searchResult, nargoPaths, usingFallbackPaths, searchResponse >>

\* await new Promise(resolve => setTimeout(resolve, 50)); then i++ and the
\* loop condition
Pace ==
    /\ pc = "delay"
    /\ i' = i + 1
    /\ IF LoopCondition(i + 1, nargoPaths, acc)
       THEN /\ pc' = "fetch"
            /\ UNCHANGED << result, apiFailure >>
       ELSE /\ pc' = "done"
            /\ apiFailure' = FinalApiFailure(apiFailure, usingFallbackPaths, acc)
            /\ result' = << Finish(acc, apiFailure, usingFallbackPaths) >>
    /\ UNCHANGED << searchResult, nargoPaths, usingFallbackPaths, acc, thrown,
                    fetchLog, lastResponse, searchResponse, currentIndex >>

\* a single call: the search API may answer anything
Search ==
    /\ \E resp \in SearchResponses : SearchWith(resp)
    /\ UNCHANGED analyzerVars
    /\ UNCHANGED rerunVars
    /\ UNCHANGED << rotatorVars, retry, driver, peer >>

\* a single call: the contents API may answer anything
FetchStep ==
    /\ pc = "fetch"
    /\ \E resp \in FetchResponses(nargoPaths[i + 1]) : FetchWith(resp)
    /\ UNCHANGED analyzerVars
    /\ UNCHANGED rerunVars
    /\ UNCHANGED << rotatorVars, retry, driver, peer >>

Delay ==
    /\ Pace
    /\ UNCHANGED analyzerVars
    /\ UNCHANGED rerunVars
    /\ UNCHANGED << rotatorVars, retry, driver, peer >>

Next == Search \/ FetchStep \/ Delay

Spec == Init /\ [][Next]_vars

(***************************************************************************)
(* Two calls of classifyRepository, one after the other, on a repository   *)
(* that answers the second call as it answered the first.  The rotator is  *)
(* the module's singleton: its position is whatever earlier requests left, *)
(* and the second call starts where the first one stopped.                 *)
(***************************************************************************)
\* what the contents API may answer in the first call: a path outside the
\* repository is a 404
RerunFetchResponses(path) ==
    IF path \in RepoPaths
    THEN { Err404, Err429 }
            \cup { [kind |-> "ok", data |-> FileData(c)] :
                      c \in { Manifest_contract, Manifest_libAztec, Manifest_bin,
                              MalformedToml } }
    ELSE { Err404 }

\* the recorded answer for the path
Recorded(path) == (CHOOSE e \in world.fetch : e.path = path).resp

\* a bug: the accumulators live outside the function and keep what the
\* previous call left
LocalsAtEntry_Stale(previous) == previous

\* the accumulators are declared in the function body: a call starts from the
\* initial values whatever the previous call left
LocalsAtEntry(previous) == InitialAcc

RerunInit ==
    /\ pc = "start"
    /\ searchResult = << >>
    /\ nargoPaths = << >>
    /\ usingFallbackPaths = FALSE
    /\ i = 0
    /\ acc = InitialAcc
    /\ apiFailure = << >>
    /\ result = << >>
    /\ thrown = << >>
    /\ fetchLog = << >>
    /\ lastResponse = << >>
    /\ searchResponse = << >>
    /\ currentIndex \in 0..(NumTokens - 1)
    /\ anInput = << >>
    /\ anOutput = << >>
    /\ run = 1
    /\ world = [start |-> << currentIndex >>, search |-> << >>, fetch |-> { }]
    /\ firstResult = << >>
    /\ rotator = NoRotator
    /\ clock = 0
    /\ opLog = << >>
    /\ retry = NoRetry
    /\ driver = NoDriver
    /\ peer = NoPeer

RerunSearch ==
    /\ \E resp \in (IF run = 1 THEN SearchResponses ELSE { world.search[1] }) :
         /\ SearchWith(resp)
         /\ world' = [world EXCEPT !.search = << resp >>]
    /\ UNCHANGED << run, firstResult >>
    /\ UNCHANGED analyzerVars
    /\ UNCHANGED << rotatorVars, retry, driver, peer >>

RerunFetch ==
    /\ pc = "fetch"
    /\ LET path == nargoPaths[i + 1]
       IN  \E resp \in (IF run = 1 THEN RerunFetchResponses(path)
                        ELSE { Recorded(path) }) :
             /\ FetchWith(resp)
             /\ world' = [world EXCEPT
                            !.fetch = @ \cup { [path |-> path, resp |-> resp] }]
    /\ UNCHANGED << run, firstResult >>
    /\ UNCHANGED analyzerVars
    /\ UNCHANGED << rotatorVars, retry, driver, peer >>

RerunDelay ==
    /\ Pace
    /\ UNCHANGED analyzerVars
    /\ UNCHANGED rerunVars
    /\ UNCHANGED << rotatorVars, retry, driver, peer >>

\* the first call has returned; classifyRepository is called again
Restart ==
    /\ run = 1
    /\ pc = "done"
    /\ run' = 2
    /\ firstResult' = result
    /\ world' = [world EXCEPT !.start = Append(@, currentIndex)]
    /\ pc' = "start"
    /\ searchResult' = << >>
    /\ nargoPaths' = << >>
    /\ usingFallbackPaths' = FALSE
    /\ i' = 0
    /\ acc' = LocalsAtEntry(acc)
    /\ apiFailure' = << >>
    /\ result' = << >>
    /\ thrown' = << >>
    /\ fetchLog' = << >>
    /\ lastResponse' = << >>
    /\ searchResponse' = << >>
    /\ UNCHANGED currentIndex
    /\ UNCHANGED analyzerVars
    /\ UNCHANGED << rotatorVars, retry, driver, peer >>

RerunNext == RerunSearch \/ RerunFetch \/ RerunDelay \/ Restart

SpecRerun == RerunInit /\ [][RerunNext]_vars

(***************************************************************************)
(* A TokenRotator on its own: the object after its constructor, then any   *)
(* calls of getNextToken, getLeastRecentlyUsedToken and                    *)
(* markTokenAsRateLimited while the clock runs.  Time is counted in half   *)
(* hours; new Date(0) is time 0 and the object is built at time 1.         *)
(***************************************************************************)
\* 60 * 60 * 1000 ms, in half hours
Hour == 2

TokenPool == << "ghp_1", "ghp_2", "ghp_3", "ghp_4" >>

\* the constructor, with n tokens in the environment
NewRotator(n) ==
    [tokens       |-> SubSeq(TokenPool, 1, n),
     currentIndex |-> 0,
     tokenUsage   |-> [t \in Range(SubSeq(TokenPool, 1, n)) |->
                          [count |-> 0, lastUsed |-> 0]]]

\* usage.count++; usage.lastUsed = new Date()
Touch(usage, token, now) ==
    [usage EXCEPT ![token] = [count |-> @.count + 1, lastUsed |-> now]]

\* a bug: the index is advanced before the token is read
getNextToken_PreIncrement(r, now) ==
    IF Len(r.tokens) = 1
    THEN [rotator |-> r, token |-> r.tokens[1]]
    ELSE LET idx   == (r.currentIndex + 1) % Len(r.tokens)
             token == r.tokens[idx + 1]
         IN  [rotator |-> [r EXCEPT !.currentIndex = idx,
                                    !.tokenUsage = Touch(@, token, now)],
              token   |-> token]

\* getNextToken(): the object after the call and the token returned
getNextToken(r, now) ==
    IF Len(r.tokens) = 1
    THEN [rotator |-> r, token |-> r.tokens[1]]
    ELSE LET token == r.tokens[r.currentIndex + 1]
         IN  [rotator |-> [r EXCEPT
                              !.currentIndex = (r.currentIndex + 1) % Len(r.tokens),
                              !.tokenUsage = Touch(@, token, now)],
              token   |-> token]

\* for (const token of this.tokens): the scan from position k on
RECURSIVE OldestFrom(_, _, _, _)
OldestFrom(r, k, oldestToken, oldestTime) ==
    IF k > Len(r.tokens) THEN oldestToken
    ELSE IF r.tokenUsage[r.tokens[k]].lastUsed < oldestTime
         THEN OldestFrom(r, k + 1, r.tokens[k], r.tokenUsage[r.tokens[k]].lastUsed)
         ELSE OldestFrom(r, k + 1, oldestToken, oldestTime)

\* getLeastRecentlyUsedToken(): the object after the call and the token returned
getLeastRecentlyUsedToken(r, now) ==
    IF Len(r.tokens) = 1
    THEN [rotator |-> r, token |-> r.tokens[1]]
    ELSE LET oldestToken ==
                 OldestFrom(r, 1, r.tokens[1], r.tokenUsage[r.tokens[1]].lastUsed)
         IN  [rotator |-> [r EXCEPT !.tokenUsage = Touch(@, oldestToken, now)],
              token   |-> oldestToken]

\* a bug: lastUsed is reset to new Date(0)
markTokenAsRateLimited_Epoch(r, token, now) ==
    IF token \in DOMAIN r.tokenUsage
    THEN [r EXCEPT !.tokenUsage[token].lastUsed = 0]
    ELSE r

\* markTokenAsRateLimited(token): the object after the call
markTokenAsRateLimited(r, token, now) ==
    IF token \in DOMAIN r.tokenUsage
    THEN [r EXCEPT !.tokenUsage[token].lastUsed = now + Hour]
    ELSE r

RotatorInit ==
    /\ pc = "start"
    /\ searchResult = << >>
    /\ nargoPaths = << >>
    /\ usingFallbackPaths = FALSE
    /\ i = 0
    /\ acc = InitialAcc
    /\ apiFailure = << >>
    /\ result = << >>
    /\ thrown = << >>
    /\ fetchLog = << >>
    /\ lastResponse = << >>
    /\ searchResponse = << >>
    /\ currentIndex = 0
    /\ anInput = << >>
    /\ anOutput = << >>
    /\ run = 1
    /\ world = NoWorld
    /\ firstResult = << >>
    /\ rotator \in { NewRotator(n) : n \in 1..MaxTokens }
    /\ clock = 1
    /\ opLog = << >>
    /\ retry = NoRetry
    /\ driver = NoDriver
    /\ peer = NoPeer

CallNext ==
    /\ Len(opLog) < MaxCalls
    /\ LET c == getNextToken(rotator, clock)
       IN  /\ rotator' = c.rotator
           /\ opLog' = Append(opLog, [op |-> "next", token |-> c.token, at |-> clock])
    /\ UNCHANGED clock
    /\ UNCHANGED << classifyVars, analyzerVars, rerunVars, retry, driver, peer >>

CallLeastRecentlyUsed ==
    /\ Len(opLog) < MaxCalls
    /\ LET c == getLeastRecentlyUsedToken(rotator, clock)
       IN  /\ rotator' = c.rotator
           /\ opLog' = Append(opLog, [op |-> "lru", token |-> c.token, at |-> clock])
    /\ UNCHANGED clock
    /\ UNCHANGED << classifyVars, analyzerVars, rerunVars, retry, driver, peer >>

CallMark ==
    /\ Len(opLog) < MaxCalls
    /\ \E token \in Range(rotator.tokens) :
         /\ rotator' = markTokenAsRateLimited(rotator, token, clock)
         /\ opLog' = Append(opLog, [op |-> "mark", token |-> token, at |-> clock])
    /\ UNCHANGED clock
    /\ UNCHANGED << classifyVars, analyzerVars, rerunVars, retry, driver, peer >>

\* half an hour passes
Tick ==
    /\ clock < MaxClock
    /\ clock' = clock + 1
    /\ UNCHANGED << rotator, opLog >>
    /\ UNCHANGED << classifyVars, analyzerVars, rerunVars, retry, driver, peer >>

RotatorNext == CallNext \/ CallLeastRecentlyUsed \/ CallMark \/ Tick

SpecRotator == RotatorInit /\ [][RotatorNext]_vars

(***************************************************************************)
(* GitHubSearchClient.searchWithRetry: one call, with searchRepositories   *)
(* returning or throwing anything it can.                                  *)
(***************************************************************************)
RateLimitError(retryAfter) == [name |-> "RateLimitError", retryAfter |-> retryAfter]

AbuseLimitError == [name |-> "AbuseLimitError", retryAfter |-> << 60 >>]

SearchTimeoutError == [name |-> "SearchTimeoutError", retryAfter |-> << >>]

GitHubAPIError == [name |-> "GitHubAPIError", retryAfter |-> << >>]

\* throw new Error(`Failed after ${maxRetries} retries`)
FailedAfterRetries == [name |-> "Error", retryAfter |-> << >>]

\* what searchRepositories does: it returns the results or throws one of the
\* four errors; retryAfter is undefined when the reset header is missing
SearchRepositoriesOutcomes ==
    { Return("results"),
      Throw(RateLimitError(<< >>)), Throw(RateLimitError(<< 0 >>)),
      Throw(RateLimitError(<< 30 >>)),
      Throw(AbuseLimitError), Throw(SearchTimeoutError), Throw(GitHubAPIError) }

\* a bug: the retry is allowed once more than maxRetries
ShouldRetry_OffByOne(error, retryCount, maxRetries) ==
    /\ error.name \in { "RateLimitError", "AbuseLimitError" }
    /\ retryCount <= maxRetries

\* (error instanceof RateLimitError || error instanceof AbuseLimitError)
\*     && retryCount < maxRetries
ShouldRetry(error, retryCount, maxRetries) ==
    /\ error.name \in { "RateLimitError", "AbuseLimitError" }
    /\ retryCount < maxRetries

\* error.retryAfter || 60
WaitTime(error) ==
    IF error.retryAfter = << >> \/ error.retryAfter = << 0 >> THEN 60
    ELSE error.retryAfter[1]

RetryInit ==
    /\ pc = "start"
    /\ searchResult = << >>
    /\ nargoPaths = << >>
    /\ usingFallbackPaths = FALSE
    /\ i = 0
    /\ acc = InitialAcc
    /\ apiFailure = << >>
    /\ result = << >>
    /\ thrown = << >>
    /\ fetchLog = << >>
    /\ lastResponse = << >>
    /\ searchResponse = << >>
    /\ currentIndex = 0
    /\ anInput = << >>
    /\ anOutput = << >>
    /\ run = 1
    /\ world = NoWorld
    /\ firstResult = << >>
    /\ rotator = NoRotator
    /\ clock = 0
    /\ opLog = << >>
    /\ \E maxRetries \in 0..MaxMaxRetries :
         retry = [pc |-> "loop", maxRetries |-> maxRetries, retryCount |-> 0,
                  calls |-> 0, caught |-> << >>, waits |-> << >>, outcome |-> << >>]
    /\ driver = NoDriver
    /\ peer = NoPeer

\* while (retryCount <= maxRetries): one pass through the try and the catch,
\* or the throw after the loop
RetryLoop ==
    /\ retry.pc = "loop"
    /\ IF retry.retryCount <= retry.maxRetries
       THEN \E o \in SearchRepositoriesOutcomes :
              IF o.kind = "return"
              THEN retry' = [retry EXCEPT !.pc = "returned",
                                          !.calls = @ + 1,
                                          !.outcome = << o >>]
              ELSE IF ShouldRetry(o.error, retry.retryCount, retry.maxRetries)
                   THEN retry' = [retry EXCEPT
                                     !.pc = "wait",
                                     !.calls = @ + 1,
                                     !.caught = Append(@, o.error),
                                     !.waits = Append(@, WaitTime(o.error))]
                   ELSE retry' = [retry EXCEPT
                                     !.pc = "thrown",
                                     !.calls = @ + 1,
                                     !.caught = Append(@, o.error),
                                     !.outcome = << o >>]
       ELSE retry' = [retry EXCEPT !.pc = "thrown",
                                   !.outcome = << Throw(FailedAfterRetries) >>]
    /\ UNCHANGED << classifyVars, analyzerVars, rerunVars, rotatorVars, driver, peer >>

\* await new Promise(resolve => setTimeout(resolve, waitTime * 1000)); retryCount++
RetryWait ==
    /\ retry.pc = "wait"
    /\ retry' = [retry EXCEPT !.pc = "loop", !.retryCount = @ + 1]
    /\ UNCHANGED << classifyVars, analyzerVars, rerunVars, rotatorVars, driver, peer >>

RetryNext == RetryLoop \/ RetryWait

SpecRetry == RetryInit /\ [][RetryNext]_vars

\* searchRepositories races the request against a timeout and the timer of
\* the wait fires: a step that can be taken is taken
SpecRetryFair == SpecRetry /\ WF_vars(RetryNext)

(***************************************************************************)
(* The discovery driver findNoirAztecRepos: the loop over the search       *)
(* queries.  Each repository a query returns is classified as soon as it   *)
(* is seen for the first time; classifyRepository does not throw, so the   *)
(* inner loop is one step with the search that feeds it.                   *)
(***************************************************************************)
RepoNames == << "org/a", "org/b", "org/c", "org/d" >>

\* the repositories query k matches: one of its own and one every query matches
QueryRepos(k) == { RepoNames[k], "org/shared" }

\* what client.searchCode does for query k
SearchCodeOutcomes(k) ==
    { Return(QueryRepos(k)),
      Throw(RateLimitError(<< 30 >>)), Throw(AbuseLimitError),
      Throw(SearchTimeoutError), Throw(GitHubAPIError) }

\* the for loop goes on to the next query, or ends
NextQuery(d) ==
    IF d.q < NumQueries
    THEN [d EXCEPT !.pc = "query", !.q = @ + 1]
    ELSE [d EXCEPT !.pc = "done"]

DriverInit ==
    /\ pc = "start"
    /\ searchResult = << >>
    /\ nargoPaths = << >>
    /\ usingFallbackPaths = FALSE
    /\ i = 0
    /\ acc = InitialAcc
    /\ apiFailure = << >>
    /\ result = << >>
    /\ thrown = << >>
    /\ fetchLog = << >>
    /\ lastResponse = << >>
    /\ searchResponse = << >>
    /\ currentIndex = 0
    /\ anInput = << >>
    /\ anOutput = << >>
    /\ run = 1
    /\ world = NoWorld
    /\ firstResult = << >>
    /\ rotator = NoRotator
    /\ clock = 0
    /\ opLog = << >>
    /\ retry = NoRetry
    /\ driver = [pc |-> "query", q |-> 1, log |-> << >>,
                 processedRepos |-> { }, results |-> << >>]
    /\ peer = NoPeer

\* the repositories of found not processed before, in the order of RepoNames
RECURSIVE NewRepos(_, _, _)
NewRepos(found, processed, k) ==
    IF k > Len(RepoNames) THEN
        IF "org/shared" \in found \ processed THEN << "org/shared" >> ELSE << >>
    ELSE (IF RepoNames[k] \in found \ processed THEN << RepoNames[k] >> ELSE << >>)
            \o NewRepos(found, processed, k + 1)

\* try { searchCode; classify and push every new repository } catch { ... }
DriverQuery ==
    /\ driver.pc = "query"
    /\ \E o \in SearchCodeOutcomes(driver.q) :
         LET logged == [driver EXCEPT
                           !.log = Append(@, [query   |-> driver.q,
                                              outcome |-> IF o.kind = "return"
                                                          THEN "results"
                                                          ELSE o.error.name])]
         IN  IF o.kind = "return"
             THEN driver' = [logged EXCEPT
                                !.pc = "pause",
                                !.results = @ \o NewRepos(o.value, driver.processedRepos, 1),
                                !.processedRepos = @ \cup o.value]
             ELSE IF o.error.name = "RateLimitError"
                  THEN driver' = [logged EXCEPT !.pc = "wait"]
                  ELSE driver' = NextQuery(logged)
    /\ UNCHANGED << classifyVars, analyzerVars, rerunVars, rotatorVars, retry, peer >>

\* await the searchQueryDelay, then the next iteration
DriverPause ==
    /\ driver.pc = "pause"
    /\ driver' = NextQuery(driver)
    /\ UNCHANGED << classifyVars, analyzerVars, rerunVars, rotatorVars, retry, peer >>

\* await new Promise(resolve => setTimeout(resolve, 60000)) in the catch block,
\* then the next iteration
DriverWait ==
    /\ driver.pc = "wait"
    /\ driver' = NextQuery(driver)
    /\ UNCHANGED << classifyVars, analyzerVars, rerunVars, rotatorVars, retry, peer >>

DriverNext == DriverQuery \/ DriverPause \/ DriverWait

SpecDriver == DriverInit /\ [][DriverNext]_vars

(***************************************************************************)
(* Two classifyRepository calls for different repositories, running        *)
(* concurrently.  A call gives up control only at an await: after the      *)
(* search, after each fetch and after each delay, which are the states     *)
(* between the actions.  The call that runs owns the variables of the      *)
(* single call; the suspended one is kept in peer.  The rotator's index is *)
(* the module's and belongs to neither.                                    *)
(***************************************************************************)
\* the locals of the call that runs
CurrentLocals ==
    [pc |-> pc, searchResult |-> searchResult, nargoPaths |-> nargoPaths,
     usingFallbackPaths |-> usingFallbackPaths, i |-> i, acc |-> acc,
     apiFailure |-> apiFailure, result |-> result, thrown |-> thrown,
     fetchLog |-> fetchLog, lastResponse |-> lastResponse,
     searchResponse |-> searchResponse]

\* the locals of a call that has not started
FreshLocals ==
    [pc |-> "start", searchResult |-> << >>, nargoPaths |-> << >>,
     usingFallbackPaths |-> FALSE, i |-> 0, acc |-> InitialAcc,
     apiFailure |-> << >>, result |-> << >>, thrown |-> << >>,
     fetchLog |-> << >>, lastResponse |-> << >>, searchResponse |-> << >>]

\* what the search API answers in the two-call runs
PairSearchResponses ==
    { Err429, [kind |-> "ok", data |-> [items |-> << << >> >>]] }
        \cup { [kind |-> "ok", data |-> [items |-> << l >>]] :
                  l \in { x \in SearchPathLists : Len(x) = 1 } }

\* what the contents API answers in the two-call runs: a path outside the
\* repository is a 404
PairFetchResponses(path) ==
    IF path \in RepoPaths
    THEN { Err404, [kind |-> "ok", data |-> FileData(Manifest_contract)],
           [kind |-> "ok", data |-> FileData(Manifest_bin)] }
    ELSE { Err404 }

\* a bug: the accumulators are module-level variables, so a call that resumes
\* finds what the other call left in them
Resume_SharedAcc(saved, other) == [saved EXCEPT !.acc = other.acc]

\* the locals a call finds when it resumes: its own, whatever the other call
\* did meanwhile
Resume(saved, other) == saved

PairInit ==
    /\ pc = "start"
    /\ searchResult = << >>
    /\ nargoPaths = << >>
    /\ usingFallbackPaths = FALSE
    /\ i = 0
    /\ acc = InitialAcc
    /\ apiFailure = << >>
    /\ result = << >>
    /\ thrown = << >>
    /\ fetchLog = << >>
    /\ lastResponse = << >>
    /\ searchResponse = << >>
    /\ currentIndex = 0
    /\ anInput = << >>
    /\ anOutput = << >>
    /\ run = 1
    /\ world = NoWorld
    /\ firstResult = << >>
    /\ rotator = NoRotator
    /\ clock = 0
    /\ opLog = << >>
    /\ retry = NoRetry
    /\ driver = NoDriver
    /\ peer = FreshLocals

PairSearch ==
    /\ \E resp \in PairSearchResponses : SearchWith(resp)
    /\ UNCHANGED << analyzerVars, rerunVars, rotatorVars, retry, driver, peer >>

PairFetch ==
    /\ pc = "fetch"
    /\ \E resp \in PairFetchResponses(nargoPaths[i + 1]) : FetchWith(resp)
    /\ UNCHANGED << analyzerVars, rerunVars, rotatorVars, retry, driver, peer >>

PairDelay ==
    /\ Pace
    /\ UNCHANGED << analyzerVars, rerunVars, rotatorVars, retry, driver, peer >>

\* the call that runs is at an await and the other call gets control
Switch ==
    /\ peer.pc # "done"
    /\ LET r == Resume(peer, CurrentLocals)
       IN  /\ pc' = r.pc
           /\ searchResult' = r.searchResult
           /\ nargoPaths' = r.nargoPaths
           /\ usingFallbackPaths' = r.usingFallbackPaths
           /\ i' = r.i
           /\ acc' = r.acc
           /\ apiFailure' = r.apiFailure
           /\ result' = r.result
           /\ thrown' = r.thrown
           /\ fetchLog' = r.fetchLog
           /\ lastResponse' = r.lastResponse
           /\ searchResponse' = r.searchResponse
    /\ peer' = CurrentLocals
    /\ UNCHANGED currentIndex
    /\ UNCHANGED << analyzerVars, rerunVars, rotatorVars, retry, driver >>

PairNext == PairSearch \/ PairFetch \/ PairDelay \/ Switch

SpecPair == PairInit /\ [][PairNext]_vars

(***************************************************************************)
(* analyzeNargoConfig called on its own, on manifests drawn from a bounded *)
(* set: every shape of the package section, and dependency tables of up to *)
(* MaxDeps keys.                                                           *)
(***************************************************************************)
Dep_noir_AZTEC == << "n", "o", "i", "r", "-", "A", "Z", "T", "E", "C" >>

Dep_azte_c == << "a", "z", "t", "e", "_", "c" >>

DepNames == { Dep_aztec, Dep_Aztec_std, Dep_std, Dep_noir_AZTEC, Dep_azte_c }

PackageShapes ==
    { NoPackage, Package(<< >>), Package(<< "" >>),
      Package(<< "contract" >>), Package(<< "lib" >>), Package(<< "bin" >>) }

\* tables of keys, no key twice
DependencyTables ==
    { Dependencies(keys) :
        keys \in { l \in UNION { [1..n -> DepNames] : n \in 0..MaxDeps } :
                      \A a, b \in DOMAIN l : a # b => l[a] # l[b] } }

AnalyzerInputs ==
    { [config |-> [package |-> p, dependencies |-> d], path |-> "contracts/Nargo.toml"] :
        p \in PackageShapes, d \in { NoDependencies } \cup DependencyTables }

AnalyzerInit ==
    /\ pc = "start"
    /\ searchResult = << >>
    /\ nargoPaths = << >>
    /\ usingFallbackPaths = FALSE
    /\ i = 0
    /\ acc = InitialAcc
    /\ apiFailure = << >>
    /\ result = << >>
    /\ thrown = << >>
    /\ fetchLog = << >>
    /\ lastResponse = << >>
    /\ searchResponse = << >>
    /\ currentIndex = 0
    /\ anInput \in { << x >> : x \in AnalyzerInputs }
    /\ anOutput = << >>
    /\ run = 1
    /\ world = NoWorld
    /\ firstResult = << >>
    /\ rotator = NoRotator
    /\ clock = 0
    /\ opLog = << >>
    /\ retry = NoRetry
    /\ driver = NoDriver
    /\ peer = NoPeer

\* const analysis = analyzeNargoConfig(config), and the entry classifyRepository
\* makes of it for the manifest's path
Analyze ==
    /\ anInput # << >>
    /\ anOutput = << >>
    /\ LET analysis == analyzeNargoConfig(anInput[1].config)
       IN  anOutput' = << [analysis |-> analysis,
                           entry    |-> IndicatorEntry(anInput[1].path, analysis)] >>
    /\ UNCHANGED anInput
    /\ UNCHANGED classifyVars
    /\ UNCHANGED rerunVars
    /\ UNCHANGED << rotatorVars, retry, driver, peer >>

AnalyzerNext == Analyze

SpecAnalyze == AnalyzerInit /\ [][AnalyzerNext]_vars

(***************************************************************************)
(* What the fetch log says                                                 *)
(***************************************************************************)
LogPaths == [k \in DOMAIN fetchLog |-> fetchLog[k].path]

\* the fetch returned a manifest
Yielded(entry) == entry.config # << >>

\* the fetch returned a manifest that indicates Aztec
Indicates(entry) ==
    /\ Yielded(entry)
    /\ Analysis(entry.config[1]).isAztec

\* the fetch returned a manifest of package type 'contract'
IsContract(entry) ==
    /\ Yielded(entry)
    /\ PackageTypeOf(entry.config[1]) = "contract"

Returned == pc = "done" /\ result # << >>

SearchFailed == searchResult # << >> /\ searchResult[1].searchFailed

(***************************************************************************)
(* C1  Monotonic OR.  At every point of a run isAztecRepo is true exactly  *)
(* when a manifest fetched so far indicates Aztec, a step never resets it, *)
(* and the returned isAztec is true exactly when some fetched manifest     *)
(* indicates Aztec.                                                        *)
(***************************************************************************)
C1_StateOk ==
    /\ acc.isAztecRepo <=> (\E k \in DOMAIN fetchLog : Indicates(fetchLog[k]))
    /\ Returned =>
         (result[1].isAztec <=> (\E k \in DOMAIN fetchLog : Indicates(fetchLog[k])))

\* C1: isAztecRepo always equals 'some fetched manifest indicates Aztec', and
\* no step takes it from true back to false
C1_MonotonicOr ==
    /\ []C1_StateOk
    /\ [][acc.isAztecRepo => acc'.isAztecRepo]_vars

\* a plain manifest, then an indicating one, then a plain one again
C1_Witness ==
    /\ Returned
    /\ result[1].isAztec
    /\ \E j, k, l \in DOMAIN fetchLog :
         /\ j < k /\ k < l
         /\ Yielded(fetchLog[j]) /\ ~Indicates(fetchLog[j])
         /\ Indicates(fetchLog[k])
         /\ Yielded(fetchLog[l]) /\ ~Indicates(fetchLog[l])

(***************************************************************************)
(* C2  Contract-type precedence.  Once a manifest of type 'contract' has   *)
(* been examined primaryType is 'contract', no later step changes it, and  *)
(* the returned nargoType is 'contract'.                                   *)
(***************************************************************************)
C2_StateOk ==
    (\E k \in DOMAIN fetchLog : IsContract(fetchLog[k])) =>
        /\ acc.primaryType = "contract"
        /\ Returned => result[1].nargoType = "contract"

\* C2: a fetched contract manifest forces primaryType and the returned
\* nargoType to 'contract', and no step takes primaryType away from 'contract'
C2_ContractPrecedence ==
    /\ []C2_StateOk
    /\ [][acc.primaryType = "contract" => acc'.primaryType = "contract"]_vars

\* a plain manifest first, the contract in the middle, then an Aztec
\* manifest of another type
C2_Witness ==
    /\ Returned
    /\ result[1].nargoType = "contract"
    /\ \E j, k, l \in DOMAIN fetchLog :
         /\ j < k /\ k < l
         /\ Yielded(fetchLog[j]) /\ ~Indicates(fetchLog[j])
         /\ IsContract(fetchLog[k])
         /\ Indicates(fetchLog[l]) /\ ~IsContract(fetchLog[l])

(***************************************************************************)
(* C3  classifyRepository never throws and always ends with a complete     *)
(* result: no state has an exception leaving the call, the loop index      *)
(* stays inside the path list, every state short of the return can take a  *)
(* step, and the returned object has every field of ClassificationResult.  *)
(***************************************************************************)
ResultFields == { "isAztec", "nargoType", "filesChecked", "aztecIndicators", "nargoFiles" }

\* C3: no exception leaves the call, and every run reaches a complete result
C3_NeverThrows ==
    /\ pc # "thrown"
    /\ thrown = << >>
    /\ pc \in { "fetch", "delay" } => i < Len(nargoPaths)
    /\ pc # "done" => ENABLED Next
    /\ pc = "done" =>
         /\ result # << >>
         /\ ResultFields \subseteq DOMAIN result[1]
         /\ DOMAIN result[1] \subseteq ResultFields \cup { "apiFailure" }

\* a search that timed out, fetches that failed in between, a rate-limited
\* last fetch, and still a manifest found
C3_Witness ==
    /\ Returned
    /\ SearchFailed
    /\ searchResult[1].failureReason = "Request timeout"
    /\ lastResponse = << Err429 >>
    /\ \E k \in DOMAIN fetchLog : Yielded(fetchLog[k])

(***************************************************************************)
(* C4  Search-failure flagging.  The result has an apiFailure field        *)
(* exactly when the search failed, and then apiFailure.searchFailed is     *)
(* true, whatever the fetches returned.                                    *)
(***************************************************************************)
C4_SearchFailureFlagged ==
    /\ pc # "start" => (apiFailure # << >> <=> SearchFailed)
    /\ Returned =>
         /\ ("apiFailure" \in DOMAIN result[1]) <=> SearchFailed
         /\ SearchFailed => result[1].apiFailure.searchFailed = TRUE

\* the search failed, the fallback found manifests, the repository is Aztec
C4_Witness ==
    /\ Returned
    /\ SearchFailed
    /\ result[1].isAztec
    /\ result[1].filesChecked = 2
    /\ result[1].apiFailure.searchFailed

(***************************************************************************)
(* C5  Fallback exhaustion.  When the search failed, the returned          *)
(* apiFailure.allFetchesFailed is true exactly when no fetch of the        *)
(* fallback catalog returned a manifest.                                   *)
(***************************************************************************)
C5_FallbackExhaustion ==
    (Returned /\ SearchFailed) =>
        (result[1].apiFailure.allFetchesFailed
            <=> (\A k \in DOMAIN fetchLog : ~Yielded(fetchLog[k])))

\* a single manifest among the catalog's fetches
C5_Witness ==
    /\ Returned
    /\ SearchFailed
    /\ Cardinality({ k \in DOMAIN fetchLog : Yielded(fetchLog[k]) }) = 1
    /\ Len(fetchLog) = Len(COMMON_NARGO_PATHS)
    /\ ~result[1].apiFailure.allFetchesFailed

(***************************************************************************)
(* C6  No-manifest baseline.  When the search succeeded and no fetch       *)
(* returned a manifest, the result is exactly: not Aztec, type 'unknown',  *)
(* zero files, no indicators, no files, and no apiFailure field.           *)
(***************************************************************************)
BaselineResult ==
    [isAztec         |-> FALSE,
     nargoType       |-> "unknown",
     filesChecked    |-> 0,
     aztecIndicators |-> << >>,
     nargoFiles      |-> << >>]

\* C6: search succeeded and no manifest fetched => the result is the baseline
C6_NoManifestBaseline ==
    (Returned /\ ~SearchFailed /\ \A k \in DOMAIN fetchLog : ~Yielded(fetchLog[k]))
        => result[1] = BaselineResult

\* the search returned two paths and both fetches came back without a manifest
C6_Witness ==
    /\ Returned
    /\ ~SearchFailed
    /\ Len(searchResult[1].paths) = 2
    /\ Len(fetchLog) = 2
    /\ \A k \in DOMAIN fetchLog : ~Yielded(fetchLog[k])
    /\ result[1] = BaselineResult

(***************************************************************************)
(* C7  Path selection.  After a successful search with at least one path   *)
(* the call fetches the returned paths and nothing else; after a failed or *)
(* empty search it fetches the fallback catalog and nothing else.          *)
(***************************************************************************)
ExpectedPaths ==
    IF ~searchResult[1].searchFailed /\ Len(searchResult[1].paths) >= 1
    THEN searchResult[1].paths
    ELSE COMMON_NARGO_PATHS

\* C7: the list walked and the paths fetched are the search's paths when it
\* returned any, the fallback catalog otherwise
C7_PathSelection ==
    pc # "start" =>
        /\ nargoPaths = ExpectedPaths
        /\ Range(LogPaths) \subseteq Range(ExpectedPaths)
        /\ pc = "done" => Range(LogPaths) = Range(ExpectedPaths)

\* the search returned paths outside the catalog, all absent: no catalog
\* path was fetched
C7_Witness ==
    /\ Returned
    /\ ~SearchFailed
    /\ Len(searchResult[1].paths) = 2
    /\ Range(LogPaths) \cap Range(COMMON_NARGO_PATHS) = { }
    /\ \A k \in DOMAIN fetchLog : ~Yielded(fetchLog[k])

(***************************************************************************)
(* C8  No early exit.  Every path of the chosen list is fetched exactly    *)
(* once: the number of fetches follows the loop index and equals the       *)
(* length of the list at the return, whatever earlier fetches returned.    *)
(***************************************************************************)
C8_NoEarlyExit ==
    /\ pc = "fetch" => (Len(fetchLog) = i /\ i < Len(nargoPaths))
    /\ pc = "delay" => (Len(fetchLog) = i + 1 /\ i + 1 < Len(nargoPaths))
    /\ pc = "done" =>
         /\ Len(fetchLog) = Len(nargoPaths)
         /\ \A k \in DOMAIN nargoPaths :
              Cardinality({ j \in DOMAIN fetchLog : fetchLog[j].path = nargoPaths[k] }) = 1

\* the first catalog fetch found a contract, and the remaining catalog paths
\* were still fetched, down to a last fetch that timed out
C8_Witness ==
    /\ Returned
    /\ Len(fetchLog) = Len(COMMON_NARGO_PATHS)
    /\ IsContract(fetchLog[1])
    /\ result[1].nargoType = "contract"
    /\ lastResponse = << ErrTimeout >>

(***************************************************************************)
(* C9  Ordering.  Paths are fetched in list order; nargoFiles is the       *)
(* subsequence of fetched paths that returned a manifest, and              *)
(* aztecIndicators has one '<path>: <indicators joined by comma>' entry    *)
(* per indicating manifest, in fetch order.                                *)
(***************************************************************************)
RECURSIVE FoundPaths(_)
FoundPaths(log) ==
    IF log = << >> THEN << >>
    ELSE IF Yielded(Head(log)) THEN << Head(log).path >> \o FoundPaths(Tail(log))
    ELSE FoundPaths(Tail(log))

RECURSIVE ExpectedIndicators(_)
ExpectedIndicators(log) ==
    IF log = << >> THEN << >>
    ELSE IF Indicates(Head(log))
         THEN << Head(log).path \o ": "
                    \o Join(Analysis(Head(log).config[1]).indicators, ", ") >>
                 \o ExpectedIndicators(Tail(log))
         ELSE ExpectedIndicators(Tail(log))

\* C9: fetches follow the list order; nargoFiles and aztecIndicators follow
\* the fetch order
C9_Ordering ==
    /\ LogPaths = SubSeq(nargoPaths, 1, Len(fetchLog))
    /\ acc.nargoFilesFound = FoundPaths(fetchLog)
    /\ acc.aztecIndicators = ExpectedIndicators(fetchLog)
    /\ Returned =>
         /\ result[1].nargoFiles = FoundPaths(fetchLog)
         /\ result[1].aztecIndicators = ExpectedIndicators(fetchLog)

\* three manifests found, two of them indicating, one with joined indicators
C9_Witness ==
    /\ Returned
    /\ Len(result[1].nargoFiles) = 3
    /\ result[1].aztecIndicators =
         << "packages/a/Nargo.toml: dependency:aztec, dependency:Aztec_std",
            "Nargo.toml: type=contract" >>

(***************************************************************************)
(* C10  Order-independence of the verdict.  Replaying the loop over a      *)
(* reordering of the fetched paths, each with the outcome it had, returns  *)
(* the same isAztec, filesChecked and apiFailure.                          *)
(***************************************************************************)
RECURSIVE RunLoop(_, _, _)
RunLoop(a, log, usingFallback) ==
    IF log = << >> THEN a
    ELSE RunLoop(LoopBody(a, Head(log).path, Head(log).config, usingFallback),
                 Tail(log), usingFallback)

\* the result of the call on the same search result and this fetch sequence
Replay(log) ==
    Finish(RunLoop(InitialAcc, log, usingFallbackPaths),
           InitialApiFailure(searchResult[1]), usingFallbackPaths)

Verdict(r) ==
    [isAztec      |-> r.isAztec,
     filesChecked |-> r.filesChecked,
     apiFailure   |-> IF "apiFailure" \in DOMAIN r THEN << r.apiFailure >> ELSE << >>]

Swap(n, j, k) == [x \in 1..n |-> IF x = j THEN k ELSE IF x = k THEN j ELSE x]

\* every permutation of a list a search can return; for the catalog, every
\* exchange of two positions of which one held a manifest
Reorderings(log) ==
    IF Len(log) <= MaxSearchPaths THEN Permutations(1..Len(log))
    ELSE { Swap(Len(log), j, k) :
             << j, k >> \in { jk \in (DOMAIN log) \X (DOMAIN log) :
                                 /\ jk[1] < jk[2]
                                 /\ Yielded(log[jk[1]]) \/ Yielded(log[jk[2]]) } }

Reordered(log, perm) == [k \in DOMAIN log |-> log[perm[k]]]

\* C10: every reordering of the fetched paths replays to the same isAztec,
\* filesChecked and apiFailure
C10_VerdictOrderIndependent ==
    Returned =>
        \A perm \in Reorderings(fetchLog) :
            Verdict(Replay(Reordered(fetchLog, perm))) = Verdict(result[1])

\* three manifests, one of them indicating, and a different order exists
C10_Witness ==
    /\ Returned
    /\ ~usingFallbackPaths
    /\ Len(fetchLog) = 3
    /\ result[1].filesChecked = 3
    /\ Indicates(fetchLog[2])
    /\ ~Indicates(fetchLog[1])
    /\ ~Indicates(fetchLog[3])

(***************************************************************************)
(* C11  Order-independence of the type.  As stated (the same nargoType for *)
(* every permutation of the paths) the claim fails: without a contract the *)
(* first plain manifest, or the last Aztec-indicating one, decides the     *)
(* type.  It holds when the manifests that decide the type agree.          *)
(***************************************************************************)
TypeOf(entry) == Analysis(entry.config[1]).type

\* the types of the manifests that decide primaryType when no contract is
\* among them: the indicating ones if there is one, else all of them
DecidingTypes(log) ==
    IF \E k \in DOMAIN log : Indicates(log[k])
    THEN { TypeOf(log[k]) : k \in { j \in DOMAIN log : Indicates(log[j]) } }
    ELSE { TypeOf(log[k]) : k \in { j \in DOMAIN log : Yielded(log[j]) } }

TypeIsOrderFree(log) ==
    \/ \E k \in DOMAIN log : IsContract(log[k])
    \/ Cardinality(DecidingTypes(log)) <= 1

\* the type the code arrives at, read off the fetch sequence
TypeByRule(log) ==
    IF \E k \in DOMAIN log : IsContract(log[k]) THEN "contract"
    ELSE IF \E k \in DOMAIN log : Indicates(log[k])
         THEN TypeOf(log[CHOOSE k \in DOMAIN log :
                            /\ Indicates(log[k])
                            /\ \A j \in DOMAIN log : Indicates(log[j]) => j <= k])
    ELSE IF \E k \in DOMAIN log : Yielded(log[k])
         THEN TypeOf(log[CHOOSE k \in DOMAIN log :
                            /\ Yielded(log[k])
                            /\ \A j \in DOMAIN log : Yielded(log[j]) => k <= j])
    ELSE "unknown"

AztecLetters == << {"a", "A"}, {"z", "Z"}, {"t", "T"}, {"e", "E"}, {"c", "C"} >>

\* the key contains 'aztec', whatever the case of each letter
ContainsAztecAnyCase(key) ==
    \E k \in 0..(Len(key) - Len(AztecLetters)) :
        \A j \in DOMAIN AztecLetters : key[k + j] \in AztecLetters[j]

HasTable(config) == config.dependencies # NoDependencies

\* the matching keys in key order, each as 'dependency:<name>'
RECURSIVE MatchingKeyIndicators(_)
MatchingKeyIndicators(keys) ==
    IF keys = << >> THEN << >>
    ELSE (IF ContainsAztecAnyCase(Head(keys))
          THEN << "dependency:" \o Str(Head(keys)) >>
          ELSE << >>) \o MatchingKeyIndicators(Tail(keys))

ExpectedDepIndicators(config) ==
    IF HasTable(config) THEN MatchingKeyIndicators(config.dependencies[1]) ELSE << >>

\* the declared type: package.type when there is a package section with a
\* non-empty type, else 'bin'
DeclaredType(config) ==
    IF /\ config.package # NoPackage
       /\ config.package[1].type # << >>
       /\ config.package[1].type # << "" >>
    THEN config.package[1].type[1]
    ELSE "bin"

Analyzed == anInput # << >> /\ anOutput # << >>

(***************************************************************************)
(* C13  A contract manifest.  As stated (indicators exactly                *)
(* ['type=contract'], dependencies not scanned) the claim fails for a      *)
(* contract manifest with an Aztec dependency: the dependencies are        *)
(* scanned whatever the type.                                              *)
(***************************************************************************)
\* C13 as stated
C13_Original ==
    (Analyzed /\ DeclaredType(anInput[1].config) = "contract") =>
        /\ anOutput[1].analysis.isAztec
        /\ anOutput[1].analysis.indicators = << "type=contract" >>
        /\ anOutput[1].entry = anInput[1].path \o ": type=contract"

\* C13 amended: for a contract manifest isAztec is true and indicators is
\* 'type=contract' followed by one 'dependency:<name>' per matching key; it is
\* exactly ['type=contract'] when no key matches
C13_ContractIndicators ==
    (Analyzed /\ DeclaredType(anInput[1].config) = "contract") =>
        /\ anOutput[1].analysis.isAztec
        /\ anOutput[1].analysis.indicators =
              << "type=contract" >> \o ExpectedDepIndicators(anInput[1].config)
        /\ anOutput[1].entry =
              anInput[1].path \o ": "
                 \o Join(<< "type=contract" >> \o ExpectedDepIndicators(anInput[1].config),
                         ", ")

\* a contract manifest that also declares an Aztec dependency
C13_Witness ==
    /\ Analyzed
    /\ anInput[1].config.package = Package(<< "contract" >>)
    /\ anInput[1].config.dependencies = Dependencies(<< Dep_std, Dep_aztec >>)
    /\ anOutput[1].entry = "contracts/Nargo.toml: type=contract, dependency:aztec"

(***************************************************************************)
(* C14  A manifest of another type.  isAztec is true exactly when a        *)
(* dependency key contains 'aztec' in any case; indicators is one          *)
(* 'dependency:<name>' per matching key, in key order and original case,   *)
(* and is empty when no key matches or there is no table.                  *)
(***************************************************************************)
C14_DependencyIndicators ==
    (Analyzed /\ DeclaredType(anInput[1].config) # "contract") =>
        /\ anOutput[1].analysis.isAztec
              <=> /\ HasTable(anInput[1].config)
                  /\ \E k \in DOMAIN anInput[1].config.dependencies[1] :
                        ContainsAztecAnyCase(anInput[1].config.dependencies[1][k])
        /\ anOutput[1].analysis.indicators = ExpectedDepIndicators(anInput[1].config)
        /\ ~anOutput[1].analysis.isAztec => anOutput[1].analysis.indicators = << >>

\* two matching keys in upper and mixed case, kept in key order and case
C14_Witness ==
    /\ Analyzed
    /\ anInput[1].config.package = Package(<< "lib" >>)
    /\ anInput[1].config.dependencies = Dependencies(<< Dep_noir_AZTEC, Dep_Aztec_std >>)
    /\ anOutput[1].analysis.indicators =
          << "dependency:noir-AZTEC", "dependency:Aztec_std" >>

(***************************************************************************)
(* C15  The returned type is package.type, or 'bin' when there is no       *)
(* package section or no (or an empty) type, also when isAztec is false;   *)
(* a manifest with neither type nor dependencies gives (false, 'bin', []). *)
(***************************************************************************)
C15_DeclaredType ==
    Analyzed =>
        /\ anOutput[1].analysis.type = DeclaredType(anInput[1].config)
        /\ (anInput[1].config.package \in { NoPackage, Package(<< >>) }
            /\ ~HasTable(anInput[1].config))
              => anOutput[1].analysis =
                    [isAztec |-> FALSE, type |-> "bin", indicators |-> << >>]

\* a manifest without package section and without dependencies
C15_Witness ==
    /\ Analyzed
    /\ anInput[1].config = [package |-> NoPackage, dependencies |-> NoDependencies]
    /\ anOutput[1].analysis = [isAztec |-> FALSE, type |-> "bin", indicators |-> << >>]

(***************************************************************************)
(* C16  findAllNargoTomlFiles never throws: whatever the search API        *)
(* answers, it returns a result in which failureReason is present exactly  *)
(* when searchFailed is true and paths is empty when searchFailed is true; *)
(* a search that succeeds with no hit returns searchFailed = false and     *)
(* empty paths.                                                            *)
(***************************************************************************)
Searched == searchResponse # << >>

ZeroHits(resp) ==
    /\ resp.kind = "ok"
    /\ resp.data.items \in { << >>, << << >> >> }

\* C16: once the search has been answered, a result was returned, with
\* failureReason present iff searchFailed, and no paths when it failed or found nothing
C16_LocatorNeverThrows ==
    Searched =>
        /\ searchResult # << >>
        /\ pc # "start"
        /\ ("failureReason" \in DOMAIN searchResult[1]) <=> searchResult[1].searchFailed
        /\ searchResult[1].searchFailed <=> searchResponse[1].kind = "error"
        /\ searchResult[1].searchFailed => searchResult[1].paths = << >>
        /\ ZeroHits(searchResponse[1]) =>
              /\ ~searchResult[1].searchFailed
              /\ searchResult[1].paths = << >>

\* an authentication failure of the search comes back as a result
C16_Witness ==
    /\ searchResponse = << Err401 >>
    /\ searchResult = << [paths |-> << >>, searchFailed |-> TRUE,
                          failureReason |-> "Authentication failed"] >>
    /\ pc = "fetch"

(***************************************************************************)
(* C17  The reason of a failed search.  As stated (the strings             *)
(* 'rate-limit-exceeded', 'request-timeout', 'authentication-failed') the  *)
(* claim fails: the strings are 'Rate limit exceeded', 'Request timeout'   *)
(* and 'Authentication failed', and an error without message gives         *)
(* 'Search API error'.                                                     *)
(***************************************************************************)
RateLimited(resp) == resp.kind = "error" /\ resp.status \in { << 403 >>, << 429 >> }

TimedOut(resp) == resp.kind = "error" /\ resp.code = << "ECONNABORTED" >>

Unauthenticated(resp) == resp.kind = "error" /\ resp.status = << 401 >>

\* every fetch of the fallback came back absent
AllAbsent ==
    /\ Returned
    /\ usingFallbackPaths
    /\ \A k \in DOMAIN fetchLog : ~Yielded(fetchLog[k])

ReasonAsClaimed(resp) ==
    IF RateLimited(resp) THEN "rate-limit-exceeded"
    ELSE IF TimedOut(resp) THEN "request-timeout"
    ELSE IF Unauthenticated(resp) THEN "authentication-failed"
    ELSE resp.message

\* C17 as stated
C17_Original ==
    (Searched /\ SearchFailed) =>
        /\ searchResult[1].failureReason = ReasonAsClaimed(searchResponse[1])
        /\ apiFailure # << >> /\ apiFailure[1].reason = searchResult[1].failureReason
        /\ (RateLimited(searchResponse[1]) /\ AllAbsent) =>
              /\ result[1].apiFailure =
                    [searchFailed |-> TRUE, allFetchesFailed |-> TRUE,
                     reason |-> "rate-limit-exceeded"]
              /\ result[1].nargoType = "unknown"

\* C17 amended: the reason is 'Rate limit exceeded' for HTTP 403/429, 'Request
\* timeout' for a timed-out request, 'Authentication failed' for HTTP 401, else
\* the error's message, or 'Search API error' when the message is empty; it is
\* copied unchanged into apiFailure.reason, and a rate-limited search followed
\* by an all-absent fallback returns apiFailure = {true, true, 'Rate limit
\* exceeded'} with nargoType 'unknown'
C17_ReasonStrings ==
    (Searched /\ SearchFailed) =>
        LET resp   == searchResponse[1]
            reason == searchResult[1].failureReason
            other  == ~RateLimited(resp) /\ ~TimedOut(resp) /\ ~Unauthenticated(resp)
        IN  /\ RateLimited(resp) => reason = "Rate limit exceeded"
            /\ TimedOut(resp) => reason = "Request timeout"
            /\ Unauthenticated(resp) => reason = "Authentication failed"
            /\ (other /\ resp.message # "") => reason = resp.message
            /\ (other /\ resp.message = "") => reason = "Search API error"
            /\ apiFailure # << >> /\ apiFailure[1].reason = reason
            /\ Returned => result[1].apiFailure.reason = reason
            /\ (RateLimited(resp) /\ AllAbsent) =>
                  /\ result[1].apiFailure =
                        [searchFailed |-> TRUE, allFetchesFailed |-> TRUE,
                         reason |-> "Rate limit exceeded"]
                  /\ result[1].nargoType = "unknown"

\* a search answered 429, then a fallback in which every path is absent
C17_Witness ==
    /\ searchResponse = << Err429 >>
    /\ AllAbsent
    /\ Len(fetchLog) = Len(COMMON_NARGO_PATHS)
    /\ result[1].apiFailure.reason = "Rate limit exceeded"
    /\ result[1].apiFailure.allFetchesFailed

(***************************************************************************)
(* C18  A transient failure of a fetch.  As stated (the fetch fails with a *)
(* TransientFetchError that carries a category) the claim fails: the fetch *)
(* returns null for an authentication, rate-limit or timeout failure, as   *)
(* it does for a 404.                                                      *)
(***************************************************************************)
Fetched == lastResponse # << >> /\ fetchLog # << >>

TransientFailure(resp) == RateLimited(resp) \/ TimedOut(resp) \/ Unauthenticated(resp)

LastFetch == fetchLog[Len(fetchLog)]

\* C18 as stated
C18_Original ==
    (Fetched /\ TransientFailure(lastResponse[1])) =>
        /\ thrown # << >>
        /\ thrown[1] \in [name : { "TransientFetchError" },
                          category : { "rate-limited", "unauthenticated", "timeout" }]

\* C18 amended: on an authentication, rate-limit or timeout failure the fetch
\* throws nothing and returns null, the result it returns for a 404; the
\* caller cannot tell the two apart
C18_TransientFailuresAbsent ==
    (Fetched /\ (TransientFailure(lastResponse[1]) \/ lastResponse[1] = Err404)) =>
        /\ thrown = << >>
        /\ pc # "thrown"
        /\ ~Yielded(LastFetch)
        /\ fetchNargoTomlFromPath(lastResponse[1]) = fetchNargoTomlFromPath(Err404)

\* a fetch answered by a timeout, returned as null
C18_Witness ==
    /\ Fetched
    /\ lastResponse = << ErrTimeout >>
    /\ LastFetch.config = << >>
    /\ thrown = << >>
    /\ pc = "delay"

(***************************************************************************)
(* C19  Every fetch outcome other than a parsed manifest (404, directory,  *)
(* rate limit, timeout, authentication failure, malformed TOML) is         *)
(* absent: the step leaves filesChecked, nargoFiles and the verdict as     *)
(* they were, counts the path as a failed fallback fetch in fallback mode, *)
(* makes one fetch of the path and goes on to the next path.               *)
(***************************************************************************)
\* the response carries content that parses as a manifest
IsManifestResponse(resp) ==
    /\ resp.kind = "ok"
    /\ resp.data.type # << "dir" >>
    /\ resp.data.content # << >>
    /\ resp.data.content[1] # MalformedToml

AbsentStep ==
    /\ pc = "fetch"
    /\ lastResponse' # << >>
    /\ ~IsManifestResponse(lastResponse'[1])

\* C19: a fetch step whose response is not a parsable manifest changes only the
\* fallback counters and the fetch log, and goes on to the next path
C19_AbsentOutcomes ==
    [][AbsentStep =>
          /\ acc'.filesChecked = acc.filesChecked
          /\ acc'.nargoFilesFound = acc.nargoFilesFound
          /\ acc'.isAztecRepo = acc.isAztecRepo
          /\ acc'.primaryType = acc.primaryType
          /\ acc'.aztecIndicators = acc.aztecIndicators
          /\ acc'.fallbackFetchFailures =
                acc.fallbackFetchFailures + (IF usingFallbackPaths THEN 1 ELSE 0)
          /\ acc'.fallbackFetchAttempts =
                acc.fallbackFetchAttempts + (IF usingFallbackPaths THEN 1 ELSE 0)
          /\ fetchLog' = Append(fetchLog, [path |-> nargoPaths[i + 1], config |-> << >>])
          /\ thrown' = << >>
          /\ \/ pc' = "delay" /\ i' = i
             \/ pc' = "done" /\ i' = i + 1 /\ i' = Len(nargoPaths)]_vars

\* a malformed manifest counted as a failed fallback fetch, after a 404
C19_Witness ==
    /\ usingFallbackPaths
    /\ Len(fetchLog) >= 2
    /\ lastResponse = << [kind |-> "ok", data |-> FileData(MalformedToml)] >>
    /\ ~Yielded(LastFetch)
    /\ acc.fallbackFetchFailures = Len(fetchLog)
    /\ acc.filesChecked = 0

(***************************************************************************)
(* C20  Idempotence.  A second call of classifyRepository, answered by the *)
(* search and by every path as the first call was, returns the result the  *)
(* first call returned, wherever the token rotator stands at either call.  *)
(***************************************************************************)
C20_Idempotent ==
    (run = 2 /\ Returned) =>
        /\ firstResult # << >>
        /\ result = firstResult

\* a second call that found manifests, started at another rotator position
\* than the first
C20_Witness ==
    /\ run = 2
    /\ Returned
    /\ result[1].filesChecked >= 2
    /\ result[1].isAztec
    /\ world.start[1] # world.start[2]

(***************************************************************************)
(* C22  The type assignment rule for a manifest whose type is not          *)
(* 'contract'.  As stated (such a manifest changes nargoType only while it *)
(* is 'unknown' and isAztec is false) the claim fails for a manifest that  *)
(* indicates Aztec through a dependency: it sets the type whenever the     *)
(* type is not 'contract'.                                                 *)
(***************************************************************************)
\* the step examines a manifest
ExamineStep ==
    /\ pc = "fetch"
    /\ Len(fetchLog') = Len(fetchLog) + 1
    /\ Yielded(fetchLog'[Len(fetchLog')])

\* the analysis of the manifest the step examines
Examined == Analysis(fetchLog'[Len(fetchLog')].config[1])

\* C22 as stated
C22_Original ==
    [][(ExamineStep /\ Examined.type # "contract") =>
          (acc'.primaryType # acc.primaryType =>
              acc.primaryType = "unknown" /\ ~acc.isAztecRepo)]_vars

\* C22 amended: a manifest whose type is not 'contract' and that does not
\* indicate Aztec changes nargoType only while nargoType is 'unknown' and
\* isAztec is false; one that indicates Aztec sets nargoType to its own type
\* unless nargoType is already 'contract'
C22_TypeAssignment ==
    [][(ExamineStep /\ Examined.type # "contract") =>
          /\ ~Examined.isAztec =>
                acc'.primaryType =
                    IF acc.primaryType = "unknown" /\ ~acc.isAztecRepo
                    THEN Examined.type
                    ELSE acc.primaryType
          /\ Examined.isAztec =>
                acc'.primaryType =
                    IF acc.primaryType = "contract" THEN "contract" ELSE Examined.type]_vars

\* a 'bin' manifest without Aztec dependency, then a 'lib' manifest with one:
\* the type set by the first is overwritten
C22_Witness ==
    /\ Len(fetchLog) = 2
    /\ fetchLog[1].config = << Manifest_bin >>
    /\ fetchLog[2].config = << Manifest_libAztec >>
    /\ acc.primaryType = "lib"
    /\ acc.filesChecked = 2

(***************************************************************************)
(* C27  Baseline type.  If no examined manifest indicates Aztec and at     *)
(* least one manifest was examined, the returned nargoType is not          *)
(* 'unknown': it is the type of the first examined manifest ('bin' when    *)
(* that manifest declares none), whatever the later manifests declare.     *)
(***************************************************************************)
NoneIndicates == \A k \in DOMAIN fetchLog : ~Indicates(fetchLog[k])

FirstExamined ==
    fetchLog[CHOOSE k \in DOMAIN fetchLog :
                /\ Yielded(fetchLog[k])
                /\ \A j \in DOMAIN fetchLog : Yielded(fetchLog[j]) => k <= j]

C28_FrameAfterAztec ==
    [][(ExamineStep /\ acc.isAztecRepo /\ ~Examined.isAztec) =>
          /\ acc'.primaryType = acc.primaryType
          /\ acc'.isAztecRepo = acc.isAztecRepo
          /\ acc'.aztecIndicators = acc.aztecIndicators
          /\ acc'.filesChecked = acc.filesChecked + 1
          /\ acc'.nargoFilesFound =
                Append(acc.nargoFilesFound, fetchLog'[Len(fetchLog')].path)
          /\ acc'.fallbackFetchFailures = acc.fallbackFetchFailures]_vars

\* a 'lib' manifest with an Aztec dependency, then a 'bin' manifest without
C28_Witness ==
    /\ Len(fetchLog) = 2
    /\ fetchLog[1].config = << Manifest_libAztec >>
    /\ fetchLog[2].config = << Manifest_bin >>
    /\ acc.isAztecRepo
    /\ acc.primaryType = "lib"
    /\ Len(acc.aztecIndicators) = 1
    /\ acc.filesChecked = 2

(***************************************************************************)
(* C30  Result consistency.  At every point of a run and in the returned   *)
(* result, filesChecked is the length of nargoFiles, aztecIndicators has   *)
(* at most filesChecked entries, and isAztec is true exactly when          *)
(* aztecIndicators is not empty.                                           *)
(***************************************************************************)
C30_ResultConsistency ==
    /\ acc.filesChecked = Len(acc.nargoFilesFound)
    /\ Len(acc.aztecIndicators) <= acc.filesChecked
    /\ acc.isAztecRepo <=> acc.aztecIndicators # << >>
    /\ Returned =>
          /\ result[1].filesChecked = Len(result[1].nargoFiles)
          /\ Len(result[1].aztecIndicators) <= result[1].filesChecked
          /\ result[1].isAztec <=> result[1].aztecIndicators # << >>

\* a returned result with three manifests, one of which indicates Aztec
C30_Witness ==
    /\ Returned
    /\ result[1].filesChecked = 3
    /\ Len(result[1].aztecIndicators) = 1
    /\ result[1].isAztec

(***************************************************************************)
(* C23  Round-robin rotation.  With N >= 2 tokens the k-th call of         *)
(* getNextToken (k from 0) returns tokens[k mod N], whatever other calls   *)
(* are made in between; N consecutive calls return every token once and    *)
(* the call after them returns the first of the N again.                   *)
(***************************************************************************)
\* the tokens getNextToken returned, in call order
RECURSIVE NextTokens(_)
NextTokens(log) ==
    IF log = << >> THEN << >>
    ELSE (IF Head(log).op = "next" THEN << Head(log).token >> ELSE << >>)
            \o NextTokens(Tail(log))

\* C23: the k-th getNextToken call returns tokens[k mod N]
C23_RoundRobin ==
    LET handed == NextTokens(opLog)
        N      == Len(rotator.tokens)
    IN  N >= 2 =>
          /\ \A k \in DOMAIN handed : handed[k] = rotator.tokens[((k - 1) % N) + 1]
          /\ \A k \in DOMAIN handed :
                k + N - 1 <= Len(handed) =>
                   /\ { handed[j] : j \in k..(k + N - 1) } = Range(rotator.tokens)
                   /\ k + N <= Len(handed) => handed[k + N] = handed[k]

\* two tokens, three getNextToken calls with a mark in between: first,
\* second, first again
C23_Witness ==
    /\ Len(rotator.tokens) = 2
    /\ NextTokens(opLog) = << "ghp_1", "ghp_2", "ghp_1" >>
    /\ \E k \in DOMAIN opLog : opLog[k].op = "mark"

(***************************************************************************)
(* C24  Rate-limit avoidance.  A token marked with markTokenAsRateLimited  *)
(* is not handed out by getNextToken or getLeastRecentlyUsedToken during   *)
(* the following hour, as long as another token is not marked.             *)
(***************************************************************************)
\* before call k, token was marked less than an hour before time
MarkedBefore(k, token, time) ==
    \E j \in 1..(k - 1) :
        /\ opLog[j].op = "mark"
        /\ opLog[j].token = token
        /\ opLog[j].at <= time
        /\ time < opLog[j].at + Hour

\* call k hands out a token that is marked although another one is not
HandsOutMarked(k) ==
    /\ opLog[k].op \in { "next", "lru" }
    /\ MarkedBefore(k, opLog[k].token, opLog[k].at)
    /\ \E other \in Range(rotator.tokens) :
          /\ other # opLog[k].token
          /\ ~MarkedBefore(k, other, opLog[k].at)

\* C24: no selection call hands out a marked token while another is unmarked
C24_MarkedTokenAvoided == \A k \in DOMAIN opLog : ~HandsOutMarked(k)

(***************************************************************************)
(* C25  LRU failover.  As stated (the LRU call after the mark returns      *)
(* another token whenever another token is not marked) the claim fails     *)
(* when the call comes an hour or more after the mark and the other token  *)
(* was marked in the same instant as t: both marks have run out, both      *)
(* tokens carry the same lastUsed, and the tie goes to the first token.    *)
(***************************************************************************)
\* calls k, k+1, k+2 are: LRU returns t, t is marked, LRU
Failover(k) ==
    /\ k + 2 <= Len(opLog)
    /\ opLog[k].op = "lru"
    /\ opLog[k + 1].op = "mark"
    /\ opLog[k + 1].token = opLog[k].token
    /\ opLog[k + 2].op = "lru"

\* at call k+2 a token other than the one call k returned is not marked
OtherUnmarked(k) ==
    \E other \in Range(rotator.tokens) :
        /\ other # opLog[k].token
        /\ ~MarkedBefore(k + 2, other, opLog[k + 2].at)

Retriable(error) == error.name \in { "RateLimitError", "AbuseLimitError" }

RetryEnded == retry.pc \in { "returned", "thrown" }

RetrySafety ==
    /\ retry.calls <= retry.maxRetries + 1
    /\ retry.retryCount <= retry.maxRetries
    /\ Len(retry.waits) <= retry.maxRetries
    \* every wait follows a rate-limit or abuse error
    /\ \A k \in DOMAIN retry.waits : Retriable(retry.caught[k])
    \* every error but the last was retried
    /\ \A k \in DOMAIN retry.caught :
          k < Len(retry.caught) => Retriable(retry.caught[k])
    /\ retry.pc = "thrown" =>
          /\ retry.caught # << >>
          /\ retry.outcome = << Throw(retry.caught[Len(retry.caught)]) >>
          /\ Len(retry.waits) = Len(retry.caught) - 1
          /\ Retriable(retry.caught[Len(retry.caught)]) =>
                /\ retry.retryCount = retry.maxRetries
                /\ retry.calls = retry.maxRetries + 1
    /\ retry.pc = "returned" => retry.outcome = << Return("results") >>

\* C29: the call ends, within maxRetries + 1 calls, retrying only rate-limit
\* and abuse errors and rethrowing the error it caught last
C29_BoundedRetry == []RetrySafety /\ <>RetryEnded

\* two retries used, the third rate-limit error rethrown
C29_Witness ==
    /\ retry.pc = "thrown"
    /\ retry.maxRetries = 2
    /\ retry.calls = 3
    /\ retry.waits = << 60, 30 >>
    /\ retry.outcome = << Throw(RateLimitError(<< 0 >>)) >>

(***************************************************************************)
(* C26  Discovery driver retry.  When a search query fails with a          *)
(* rate-limit error the driver waits and then runs that same query again:  *)
(* the query is not skipped and its repositories are not lost.             *)
(***************************************************************************)
\* attempt j of the log failed with a rate-limit error
RateLimitedAttempt(j) == driver.log[j].outcome = "RateLimitError"

\* C26: after a rate-limited attempt the driver is waiting, or is about to run
\* or has run the same query as its next attempt; at the end of the run every
\* repository of a rate-limited query has been processed
C26_RateLimitedQueryRetried ==
    /\ \A j \in DOMAIN driver.log :
          RateLimitedAttempt(j) =>
             IF j < Len(driver.log)
             THEN driver.log[j + 1].query = driver.log[j].query
             ELSE \/ driver.pc = "wait"
                  \/ driver.pc = "query" /\ driver.q = driver.log[j].query
    /\ driver.pc = "done" =>
          \A j \in DOMAIN driver.log :
              RateLimitedAttempt(j) =>
                  QueryRepos(driver.log[j].query) \subseteq driver.processedRepos

(***************************************************************************)
(* C21  Non-interference.  Two calls for different repositories,           *)
(* interleaved at their awaits, each return what they return alone on the  *)
(* same answers; they share the rotator's position only, and the fallback  *)
(* catalog is not modified.                                                *)
(***************************************************************************)
\* what findAllNargoTomlFiles returned to the call with locals l
LocatedBy(l) == findAllNargoTomlFiles(l.searchResponse[1]).value

\* the accumulators of a call alone after the fetches of l
AloneAcc(l) == RunLoop(InitialAcc, l.fetchLog, UsingFallback(LocatedBy(l)))

\* the result of a call alone on the search answer and the fetches of l
AloneResult(l) ==
    Finish(AloneAcc(l), InitialApiFailure(LocatedBy(l)), UsingFallback(LocatedBy(l)))

\* requests the call with locals l has made
Requests(l) == (IF l.searchResponse = << >> THEN 0 ELSE 1) + Len(l.fetchLog)

Undisturbed(l) ==
    l.pc # "start" =>
        /\ l.thrown = << >>
        /\ l.acc = AloneAcc(l)
        /\ l.nargoPaths = SelectPaths(LocatedBy(l))
        /\ l.usingFallbackPaths => l.nargoPaths = COMMON_NARGO_PATHS
        /\ \A k \in DOMAIN l.fetchLog : l.fetchLog[k].path = l.nargoPaths[k]
        /\ l.pc = "done" =>
              /\ Len(l.fetchLog) = Len(l.nargoPaths)
              /\ l.result = << AloneResult(l) >>

\* C21: each of the two calls is where it would be alone, and returns what it
\* would return alone; the rotator's index counts the requests of both
C21_NonInterference ==
    /\ Undisturbed(CurrentLocals)
    /\ Undisturbed(peer)
    /\ currentIndex = (Requests(CurrentLocals) + Requests(peer)) % NumTokens

\* both calls in the middle of their loops, one walking the catalog after a
\* rate-limited search and already Aztec, the other not
C21_Witness ==
    /\ pc = "delay"
    /\ usingFallbackPaths
    /\ searchResponse = << Err429 >>
    /\ acc.isAztecRepo
    /\ Len(fetchLog) >= 2
    /\ peer.pc = "fetch"
    /\ peer.usingFallbackPaths
    /\ Len(peer.fetchLog) >= 2
    /\ ~peer.acc.isAztecRepo
    /\ peer.acc.filesChecked = 1

=============================================================================
